---- MODULE Spec2Model ----
(***************************************************************************)
(* A model of the MatPredict backend: the feature-vector binder and the    *)
(* predictor (app/ml/predictor.py), the lazily created process-wide        *)
(* predictor used by the prediction endpoint (app/api/predictions.py),     *)
(* the statistics calculators, the per-wrestler aggregator and the pair    *)
(* composer (app/ml/features.py), and the prediction request handler as a  *)
(* whole, from validation to response.                                     *)
(*                                                                         *)
(* Conventions.                                                            *)
(*  - A Python dict is a sequence of <<key, value>> pairs with distinct    *)
(*    keys, in insertion order.                                            *)
(*  - Python sequences are 0-based, TLA+ sequences 1-based: Python's       *)
(*    proba[0] is proba[1] here and Python's proba[1] is proba[2].         *)
(*  - A probability is an integer number of 1/Scale units, so 1.0 is       *)
(*    Scale and 1.0 - p is Scale - p.                                      *)
(*  - A quotient a / b is the pair <<a, b>>, never reduced; 0.0 is         *)
(*    <<0, 1>>.                                                            *)
(*  - None is the integer 0 wherever the code holds an optional id or an   *)
(*    optional object handle (ids and handles start at 1).                 *)
(*  - A float is the pair <<a, b>> of the quotient that produced it; where *)
(*    two floats reached by different operations are compared, their       *)
(*    binary64 values are computed bit by bit (F64Div, F64Sub).            *)
(***************************************************************************)
EXTENDS Integers, Sequences, FiniteSets, TLC

VARIABLES
    artifact,     \* the model file on disk: [exists, hasProba, out, alt, at, cut]
    predictor,    \* predictor.py: the module-level handle (0 is None)
    heap,         \* the WrestlingPredictor instances constructed so far
    features,     \* the feature dict handed to prepare_features / predict
    bindOut,      \* the outcome of the last prepare_features call
    predOut,      \* the outcome of the last predict call
    modelCalls,   \* how often model.predict_proba / model.predict ran
    pc,           \* per request thread: its position in predict_match
    tmp,          \* per request thread: the instance it has constructed
    handle,       \* per request thread: what get_predictor() returned
    resp,         \* per request thread: the response of its last request
    served,       \* per request thread: requests started so far
    loadAttempts, \* WrestlingPredictor() constructions started
    loadFailures, \* constructions that raised FileNotFoundError
    db,           \* the matches table
    result_types, \* the result_types table
    match_stats,  \* the match_stats table
    seasons,      \* the seasons table
    wrestlers,    \* the wrestlers table
    weight_classes, \* the weight_classes table
    query,        \* the arguments of the last statistics call
    statOut       \* the results of the last statistics call

vars == <<artifact, predictor, heap, features, bindOut, predOut, modelCalls,
          pc, tmp, handle, resp, served, loadAttempts, loadFailures,
          db, result_types, match_stats, seasons, wrestlers, weight_classes,
          query, statOut>>

(***************************************************************************)
(* Bounds of the model.                                                    *)
(***************************************************************************)
Scale == 4          \* probabilities are multiples of 1/Scale
MaxClasses == 3     \* classes of a probability-exposing model
MaxMissing == 1     \* contract names left out of a feature dict
MaxExtra == 1       \* keys of a feature dict that are not contract names
MaxSeed == 1        \* value assignments tried per feature dict
NumThreads == 2     \* concurrent request threads
MaxRequests == 3    \* requests the process serves in all
MaxMatches == 3     \* rows of the matches table
MaxBouts == 4       \* matches on file of a wrestler whose form is computed
MaxHistory == 22    \* matches on file of a wrestler whose streak is computed
MaxExchanges == 2   \* prediction requests served one after the other

None == 0

(***************************************************************************)
(* Python dicts.                                                           *)
(***************************************************************************)
HasKey(d, k) == \E i \in DOMAIN d : d[i][1] = k

Lookup(d, k) == d[CHOOSE i \in DOMAIN d : d[i][1] = k][2]

Values(d) == [i \in DOMAIN d |-> d[i][2]]

(***************************************************************************)
(* WrestlingPredictor.__init__: the feature-name contract, in the order    *)
(* the trained model expects.                                              *)
(***************************************************************************)
\* A contract whose last name is not the one the aggregator emits.
feature_names_season_year ==
    << "career_wins", "career_losses", "career_matches", "season_wins",
       "season_matches", "season_win_rate", "prev_yearly_win_rate",
       "experience",
       "win_rate_last_3", "win_rate_last_5", "win_rate_last_10",
       "win_rate_last_15", "streak", "bonus_win_rate_last_5",
       "bonus_win_rate_last_10", "close_match_win_rate_last_5",
       "close_match_win_rate_last_10",
       "avg_points_scored_last_3", "avg_points_allowed_last_3",
       "avg_point_differential_last_3", "avg_points_scored_last_5",
       "avg_points_allowed_last_5", "avg_point_differential_last_5",
       "avg_points_scored_last_10", "avg_points_allowed_last_10",
       "avg_point_differential_last_10", "overtime_rate_last_5",
       "overtime_rate_last_10", "avg_duration_last_5",
       "avg_duration_last_10",
       "dual_meet_wins", "dual_meet_matches", "dual_meet_win_rate",
       "tournament_wins", "tournament_matches", "tournament_win_rate",
       "weight_class_matches", "weight_class_wins",
       "weight_class_win_rate",
       "days_since_last_match", "matches_per_week_last_30_days", "season_year" >>

\* The contract of this source.
feature_names ==
    << "career_wins", "career_losses", "career_matches", "season_wins",
       "season_matches", "season_win_rate", "prev_yearly_win_rate",
       "experience",
       "win_rate_last_3", "win_rate_last_5", "win_rate_last_10",
       "win_rate_last_15", "streak", "bonus_win_rate_last_5",
       "bonus_win_rate_last_10", "close_match_win_rate_last_5",
       "close_match_win_rate_last_10",
       "avg_points_scored_last_3", "avg_points_allowed_last_3",
       "avg_point_differential_last_3", "avg_points_scored_last_5",
       "avg_points_allowed_last_5", "avg_point_differential_last_5",
       "avg_points_scored_last_10", "avg_points_allowed_last_10",
       "avg_point_differential_last_10", "overtime_rate_last_5",
       "overtime_rate_last_10", "avg_duration_last_5",
       "avg_duration_last_10",
       "dual_meet_wins", "dual_meet_matches", "dual_meet_win_rate",
       "tournament_wins", "tournament_matches", "tournament_win_rate",
       "weight_class_matches", "weight_class_wins",
       "weight_class_win_rate",
       "days_since_last_match", "matches_per_week_last_30_days", "year" >>

\* The instance WrestlingPredictor() builds from the artifact on disk.  The
\* unpickled model is a fixed function of its input row, a decision tree
\* with one test: it answers alt when the row's entry at position at is at
\* least cut, and out otherwise.  An answer is the row of class
\* probabilities predict_proba(X)[0] when the model has predict_proba,
\* else the one-element row <<predict(X)[0]>>.
NewPredictor(art) ==
    [model |-> [hasProba |-> art.hasProba, out |-> art.out, alt |-> art.alt,
                at |-> art.at, cut |-> art.cut],
     feature_names |-> feature_names]

\* What the model returns for the bound row X.
Answer(model, X) ==
    IF X[1][model.at] >= model.cut THEN model.alt ELSE model.out

(***************************************************************************)
(* WrestlingPredictor.prepare_features: walk the contract in order, raise  *)
(* ValueError("Missing feature: <name>") at the first name the dict lacks, *)
(* else return the values as one row (reshape(1, -1)).                     *)
(***************************************************************************)
RECURSIVE PrepareLoop(_, _, _, _)
PrepareLoop(names, feats, i, feature_values) ==
    IF i > Len(names)
    THEN [status |-> "ok", X |-> <<feature_values>>, message |-> ""]
    ELSE IF ~HasKey(feats, names[i])
         THEN [status |-> "ValueError", X |-> <<>>, message |-> names[i]]
         ELSE PrepareLoop(names, feats, i + 1,
                          Append(feature_values, Lookup(feats, names[i])))

\* A binder that takes the values in the dict's own order.
prepare_features_dict_order(self, feats) ==
    IF \E i \in DOMAIN self.feature_names : ~HasKey(feats, self.feature_names[i])
    THEN PrepareLoop(self.feature_names, feats, 1, <<>>)
    ELSE [status |-> "ok", X |-> <<Values(feats)>>, message |-> ""]

\* A binder that substitutes 0 for a missing name (features.get(name, 0)).
RECURSIVE DefaultingLoop(_, _, _, _)
DefaultingLoop(names, feats, i, feature_values) ==
    IF i > Len(names)
    THEN [status |-> "ok", X |-> <<feature_values>>, message |-> ""]
    ELSE DefaultingLoop(names, feats, i + 1,
            Append(feature_values,
                   IF HasKey(feats, names[i]) THEN Lookup(feats, names[i]) ELSE 0))

prepare_features_defaulting(self, feats) ==
    DefaultingLoop(self.feature_names, feats, 1, <<>>)

prepare_features(self, feats) ==
    PrepareLoop(self.feature_names, feats, 1, <<>>)

(***************************************************************************)
(* WrestlingPredictor.predict.  out is what the model returns for X.       *)
(* proba[1] on a one-class row raises IndexError.                          *)
(***************************************************************************)
\* predict with the class indices swapped.
ModelOutcomeSwapped(self, out) ==
    IF self.model.hasProba
    THEN IF Len(out) < 2
         THEN [status |-> "IndexError", pair |-> <<>>, path |-> "proba",
               message |-> ""]
         ELSE [status |-> "ok", pair |-> <<out[1], out[2]>>, path |-> "proba",
               message |-> ""]
    ELSE [status |-> "ok", pair |-> <<out[1], Scale - out[1]>>,
          path |-> "scalar", message |-> ""]

\* predict whose scalar path forgets the complement.
ModelOutcomeNoComplement(self, out) ==
    IF self.model.hasProba
    THEN IF Len(out) < 2
         THEN [status |-> "IndexError", pair |-> <<>>, path |-> "proba",
               message |-> ""]
         ELSE [status |-> "ok", pair |-> <<out[2], out[1]>>, path |-> "proba",
               message |-> ""]
    ELSE [status |-> "ok", pair |-> <<out[1], out[1]>>,
          path |-> "scalar", message |-> ""]

\* The model call and the output policy of predict.
ModelOutcome(self, out) ==
    IF self.model.hasProba
    THEN IF Len(out) < 2
         THEN [status |-> "IndexError", pair |-> <<>>, path |-> "proba",
               message |-> ""]
         ELSE [status |-> "ok", pair |-> <<out[2], out[1]>>, path |-> "proba",
               message |-> ""]
    ELSE [status |-> "ok", pair |-> <<out[1], Scale - out[1]>>,
          path |-> "scalar", message |-> ""]

predict(self, feats) ==
    LET X == prepare_features(self, feats) IN
    IF X.status # "ok"
    THEN [status |-> X.status, pair |-> <<>>, path |-> "none",
          message |-> X.message]
    ELSE ModelOutcome(self, Answer(self.model, X.X))

\* Whether predict gets as far as invoking the model.
InvokesModel(self, feats) == prepare_features(self, feats).status = "ok"

(***************************************************************************)
(* What an opaque model can return.                                        *)
(***************************************************************************)
RECURSIVE SeqSum(_)
SeqSum(s) == IF s = <<>> THEN 0 ELSE s[1] + SeqSum(Tail(s))

\* Rows of k class probabilities: non-negative, summing to 1.
ProbaRows(k) == {r \in [1..k -> 0..Scale] : SeqSum(r) = Scale}

ProbaOutputs == UNION {ProbaRows(k) : k \in 1..MaxClasses}

\* A point prediction: a class label or score.
ScalarOutputs == {<<v>> : v \in 0..Scale}

\* The model files that can be on disk: none, or a pickled model of either
\* kind with its answer.
NoArtifact == [exists |-> FALSE, hasProba |-> FALSE, out |-> <<>>,
               alt |-> <<>>, at |-> 1, cut |-> 0]

\* A model that gives one answer whatever the row.
Constant(hasProba, out) ==
    [exists |-> TRUE, hasProba |-> hasProba, out |-> out, alt |-> out,
     at |-> 1, cut |-> 0]

Artifacts ==
    {Constant(TRUE, o) : o \in ProbaOutputs}
    \cup {Constant(FALSE, o) : o \in ScalarOutputs}

(***************************************************************************)
(* The feature dicts the binder is tried on: the contract names in one of  *)
(* three key orders, a run of count names left out from position start,    *)
(* nExtra foreign keys in front (keys the pairwise composer emits), and    *)
(* values that differ from name to name.                                   *)
(***************************************************************************)
NumNames == Len(feature_names)

KeyOrders == {"contract", "reversed", "rotated"}

KeyAt(order, i) ==
    CASE order = "contract" -> i
      [] order = "reversed" -> NumNames + 1 - i
      [] order = "rotated"  -> ((i + (NumNames \div 2)) % NumNames) + 1

ExtraKeys == << "h2h_matches", "h2h_win_rate", "win_rate_diff_5",
                "win_rate_diff_10", "point_diff_last_5" >>

ValueOf(i, seed) == i * (seed + 1) + seed

Min(a, b) == IF a < b THEN a ELSE b

MakeDict(order, start, count, nExtra, seed) ==
    LET full == [i \in 1..NumNames |->
                    <<feature_names[KeyAt(order, i)],
                      ValueOf(KeyAt(order, i), seed)>>]
        gone == {feature_names[j] :
                    j \in {k \in 1..NumNames : k >= start /\ k < start + count}}
        kept == SelectSeq(full, LAMBDA p : p[1] \notin gone)
        extra == [i \in 1..Min(nExtra, Len(ExtraKeys)) |-> <<ExtraKeys[i], 1000 + i>>]
    IN extra \o kept

FeatureDicts ==
    {MakeDict(order, start, count, nExtra, seed) :
        order \in KeyOrders, start \in 1..NumNames,
        count \in 0..MaxMissing, nExtra \in 0..MaxExtra, seed \in 0..MaxSeed}

\* A dict that holds every contract name.
Complete(feats) == \A i \in 1..NumNames : HasKey(feats, feature_names[i])

\* The dict compute_wrestler_features returns: every contract name, in
\* contract order.
FullDict == MakeDict("contract", 1, 0, 0, 0)

(***************************************************************************)
(* Idle values of the variables a specification does not use.              *)
(***************************************************************************)
Threads == 1..NumThreads

NoBind == [status |-> "none", X |-> <<>>, message |-> ""]

NoPredict == [res |-> [status |-> "none", pair |-> <<>>, path |-> "none",
                       message |-> ""],
              out |-> <<>>]

NoResp == [code |-> 0, pair |-> <<>>]

NoQuery == [op |-> "none", wrestler_id |-> None, season_id |-> None]

NoStat == [matches |-> <<>>, win_rate |-> <<0, 1>>, streak |-> 0]

ThreadsIdle ==
    /\ pc = [t \in Threads |-> "idle"]
    /\ tmp = [t \in Threads |-> None]
    /\ handle = [t \in Threads |-> None]
    /\ resp = [t \in Threads |-> NoResp]
    /\ served = [t \in Threads |-> 0]
    /\ loadAttempts = 0
    /\ loadFailures = 0

threadVars == <<pc, tmp, handle, resp, served, loadAttempts, loadFailures>>

statVars == <<db, result_types, match_stats, seasons, wrestlers,
              weight_classes, query, statOut>>

NoSideTables ==
    /\ result_types = <<>>
    /\ match_stats = <<>>
    /\ seasons = <<>>
    /\ wrestlers = <<>>
    /\ weight_classes = <<>>

(***************************************************************************)
(* The binder and the predictor on their own: a constructed predictor,     *)
(* one feature dict, one call of prepare_features and one of predict.      *)
(***************************************************************************)
\* Every model answer is tried on the dicts that reach the model, and one
\* model of each kind on the dicts that do not.
BinaryArtifacts == {Constant(TRUE, <<1, Scale - 1>>), Constant(FALSE, <<1>>)}

BindInputs ==
    {<<a, f>> : a \in Artifacts,
                f \in {d \in FeatureDicts : Complete(d)}}
    \cup {<<a, f>> : a \in BinaryArtifacts, f \in FeatureDicts}

BindInit ==
    /\ \E in \in BindInputs : artifact = in[1] /\ features = in[2]
    /\ heap = <<NewPredictor(artifact)>>
    /\ predictor = 1
    /\ bindOut = NoBind
    /\ predOut = NoPredict
    /\ modelCalls = 0
    /\ ThreadsIdle
    /\ db = <<>>
    /\ NoSideTables
    /\ query = NoQuery
    /\ statOut = NoStat

CallPrepareFeatures ==
    /\ bindOut.status = "none"
    /\ bindOut' = prepare_features(heap[predictor], features)
    /\ UNCHANGED <<artifact, predictor, heap, features, predOut, modelCalls,
                   threadVars, statVars>>

\* predict() invokes the model only once prepare_features has returned.
CallPredict ==
    /\ predOut.res.status = "none"
    /\ LET self == heap[predictor] IN
       IF InvokesModel(self, features)
       THEN /\ predOut' = [res |-> predict(self, features),
                            out |-> Answer(self.model,
                                           prepare_features(self, features).X)]
            /\ modelCalls' = modelCalls + 1
       ELSE /\ predOut' = [res |-> predict(self, features), out |-> <<>>]
            /\ modelCalls' = modelCalls
    /\ UNCHANGED <<artifact, predictor, heap, features, bindOut,
                   threadVars, statVars>>

BindNext == CallPrepareFeatures \/ CallPredict

SpecBind == BindInit /\ [][BindNext]_vars

FirstAbsent(feats) ==
    feature_names[CHOOSE i \in 1..NumNames :
                     /\ ~HasKey(feats, feature_names[i])
                     /\ \A j \in 1..(i - 1) : HasKey(feats, feature_names[j])]

\* C1: for a feature mapping that holds every contract name, the bound
\* vector has one element per contract name and element i is the mapping's
\* value for the i-th contract name, whatever the mapping's key order and
\* whatever extra keys it carries.
BindInContractOrder ==
    (Complete(features) /\ bindOut.status # "none") =>
        /\ bindOut.status = "ok"
        /\ Len(bindOut.X) = 1
        /\ Len(bindOut.X[1]) = NumNames
        /\ \A i \in 1..NumNames :
              bindOut.X[1][i] = Lookup(features, feature_names[i])

\* A complete mapping with a foreign key in front and its keys out of
\* contract order has been bound.
BindInContractOrderWitness ==
    /\ bindOut.status = "ok"
    /\ ~(features[1][1] \in {feature_names[i] : i \in 1..NumNames})
    /\ features[2][1] # feature_names[1]

\* C2: when a contract name is absent from the mapping, prepare_features
\* raises an error naming the first absent name and returns no vector, and
\* predict raises the same error without substituting a default and
\* without invoking the model.
MissingFeatureIsHardStop ==
    ~Complete(features) =>
        /\ bindOut.status # "none" =>
              /\ bindOut.status = "ValueError"
              /\ bindOut.message = FirstAbsent(features)
              /\ bindOut.X = <<>>
        /\ predOut.res.status # "none" =>
              /\ predOut.res.status = "ValueError"
              /\ predOut.res.message = FirstAbsent(features)
              /\ predOut.res.pair = <<>>
        /\ modelCalls = 0

\* Both prepare_features and predict were called on a mapping that lacks a
\* contract name.
MissingFeatureIsHardStopWitness ==
    /\ ~Complete(features)
    /\ bindOut.status = "ValueError"
    /\ predOut.res.status = "ValueError"

PairSum(p) == p[1] + p[2]

PredictOutputPolicy ==
    predOut.res.status = "ok" =>
        IF heap[predictor].model.hasProba
        THEN /\ predOut.res.path = "proba"
             /\ predOut.res.pair[1] = predOut.out[2]
             /\ predOut.res.pair[2] = predOut.out[1]
        ELSE /\ predOut.res.path = "scalar"
             /\ predOut.res.pair[1] = predOut.out[1]
             /\ predOut.res.pair[2] = Scale - predOut.out[1]

\* predict has returned on the probability path with unequal class
\* probabilities.
PredictOutputPolicyWitness ==
    /\ predOut.res.status = "ok"
    /\ predOut.res.path = "proba"
    /\ predOut.out[1] # predOut.out[2]

(***************************************************************************)
(* The prediction endpoint under concurrent requests.  predict_match is a  *)
(* plain def, so the server runs each request on a worker thread; the      *)
(* threads share the module-level predictor.  A thread can be preempted    *)
(* between any two of the steps below: WrestlingPredictor() reads a file,  *)
(* and the test of the handle, the construction, the store to the handle   *)
(* and the final load of it are separate bytecode steps.                   *)
(***************************************************************************)
\* The server is started with no model file, or with a model of either kind.
ServeArtifacts == BinaryArtifacts \cup {NoArtifact}

Init ==
    /\ artifact \in ServeArtifacts
    /\ predictor = None
    /\ heap = <<>>
    /\ features = FullDict
    /\ bindOut = NoBind
    /\ predOut = NoPredict
    /\ modelCalls = 0
    /\ ThreadsIdle
    /\ db = <<>>
    /\ NoSideTables
    /\ query = NoQuery
    /\ statOut = NoStat

serveFrame == <<artifact, features, bindOut, predOut, statVars>>

\* get_predictor: a load that is skipped once one has failed.
NeedsLoadUnlessFailed(p) == p = None /\ loadFailures = 0

\* get_predictor: "if predictor is None".
NeedsLoad(p) == p = None

\* predict_match up to get_predictor(): the ids are known and both feature
\* dicts have been computed.
StartRequest(t) ==
    /\ pc[t] = "idle"
    /\ SeqSum(served) < MaxRequests
    /\ served' = [served EXCEPT ![t] = @ + 1]
    /\ resp' = [resp EXCEPT ![t] = NoResp]
    /\ pc' = [pc EXCEPT ![t] = "get_predictor"]
    /\ UNCHANGED <<predictor, heap, modelCalls, tmp, handle, loadAttempts,
                   loadFailures, serveFrame>>

\* get_predictor: test the global handle.
GetPredictorCheck(t) ==
    /\ pc[t] = "get_predictor"
    /\ pc' = [pc EXCEPT ![t] = IF NeedsLoad(predictor) THEN "construct"
                                                       ELSE "return"]
    /\ UNCHANGED <<predictor, heap, modelCalls, tmp, handle, resp, served,
                   loadAttempts, loadFailures, serveFrame>>

\* WrestlingPredictor(): FileNotFoundError when the artifact is missing,
\* which predict_match turns into HTTP 500; else a new instance.
Construct(t) ==
    /\ pc[t] = "construct"
    /\ loadAttempts' = loadAttempts + 1
    /\ IF artifact.exists
       THEN /\ heap' = Append(heap, NewPredictor(artifact))
            /\ tmp' = [tmp EXCEPT ![t] = Len(heap) + 1]
            /\ pc' = [pc EXCEPT ![t] = "assign"]
            /\ UNCHANGED <<loadFailures, resp>>
       ELSE /\ loadFailures' = loadFailures + 1
            /\ resp' = [resp EXCEPT ![t] = [code |-> 500, pair |-> <<>>]]
            /\ pc' = [pc EXCEPT ![t] = "idle"]
            /\ UNCHANGED <<heap, tmp>>
    /\ UNCHANGED <<predictor, modelCalls, handle, served, serveFrame>>

\* get_predictor: store the new instance in the global handle.
Assign(t) ==
    /\ pc[t] = "assign"
    /\ predictor' = tmp[t]
    /\ pc' = [pc EXCEPT ![t] = "return"]
    /\ UNCHANGED <<heap, modelCalls, tmp, handle, resp, served, loadAttempts,
                   loadFailures, serveFrame>>

\* get_predictor: "return predictor" loads the global handle.  handle[t]
\* keeps the last value get_predictor returned to thread t.
Return(t) ==
    /\ pc[t] = "return"
    /\ handle' = [handle EXCEPT ![t] = predictor]
    /\ pc' = [pc EXCEPT ![t] = "predict"]
    /\ UNCHANGED <<predictor, heap, modelCalls, tmp, resp, served,
                   loadAttempts, loadFailures, serveFrame>>

\* A handler that reports every exception as a server error.
ResponseAllServerErrors(res) ==
    CASE res.status = "ok" -> [code |-> 200, pair |-> res.pair]
      [] OTHER             -> [code |-> 500, pair |-> <<>>]

\* The response predict_match builds from predictor.predict(w1_features):
\* ValueError becomes HTTP 400, any other exception HTTP 500.
Response(res) ==
    CASE res.status = "ok"         -> [code |-> 200, pair |-> res.pair]
      [] res.status = "ValueError" -> [code |-> 400, pair |-> <<>>]
      [] OTHER                     -> [code |-> 500, pair |-> <<>>]

\* predict_match from predictor.predict to the response.  A None handle
\* has no predict attribute: AttributeError, HTTP 500.
Predict(t) ==
    /\ pc[t] = "predict"
    /\ IF handle[t] = None
       THEN /\ resp' = [resp EXCEPT ![t] = [code |-> 500, pair |-> <<>>]]
            /\ modelCalls' = modelCalls
       ELSE LET self == heap[handle[t]] IN
            /\ resp' = [resp EXCEPT ![t] = Response(predict(self, features))]
            /\ modelCalls' = IF InvokesModel(self, features)
                             THEN modelCalls + 1 ELSE modelCalls
    /\ pc' = [pc EXCEPT ![t] = "idle"]
    /\ UNCHANGED <<predictor, heap, tmp, handle, served, loadAttempts,
                   loadFailures, serveFrame>>

Next ==
    \E t \in Threads :
        \/ StartRequest(t)
        \/ GetPredictorCheck(t)
        \/ Construct(t)
        \/ Assign(t)
        \/ Return(t)
        \/ Predict(t)

Spec == Init /\ [][Next]_vars

\* C3: for any interleaving of concurrent requests that call
\* get_predictor() while no predictor exists, the model is loaded and a
\* WrestlingPredictor constructed at most once in the process.
InitializedAtMostOnce == Len(heap) <= 1

\* C4: once get_predictor() has returned a predictor the process-wide
\* handle never changes again, every later get_predictor() returns that
\* same instance, and the instances already loaded are never modified.
HandleNeverChanges ==
    [][(\E t \in Threads : handle[t] # None) =>
          /\ predictor' = predictor
          /\ \A t \in Threads : handle'[t] = predictor
                                \/ handle'[t] = handle[t]
          /\ \A i \in DOMAIN heap : heap'[i] = heap[i]]_vars

Involves(m, wrestler_id) ==
    m.wrestler1_id = wrestler_id \/ m.wrestler2_id = wrestler_id

InSeason(m, season_id) == season_id # None => m.season_id = season_id

\* order_by(desc(Match.date))
RECURSIVE OrderByDateDesc(_)
OrderByDateDesc(rows) ==
    IF rows = <<>>
    THEN <<>>
    ELSE LET k == CHOOSE i \in DOMAIN rows :
                      \A j \in DOMAIN rows : rows[j].date <= rows[i].date
             rest == [i \in 1..(Len(rows) - 1) |->
                         IF i < k THEN rows[i] ELSE rows[i + 1]]
         IN <<rows[k]>> \o OrderByDateDesc(rest)

\* A limit that yields nothing unless n rows exist.
LimitOnlyFull(rows, n) == IF Len(rows) < n THEN <<>> ELSE SubSeq(rows, 1, n)

\* limit(n)
Limit(rows, n) == SubSeq(rows, 1, Min(n, Len(rows)))

\* reversed(matches)
Reversed(rows) == [i \in 1..Len(rows) |-> rows[Len(rows) + 1 - i]]

\* get_recent_matches: the wrestler's n most recent matches, newest first.
get_recent_matches(table, wrestler_id, season_id, n) ==
    Limit(OrderByDateDesc(
              SelectSeq(table, LAMBDA m : /\ Involves(m, wrestler_id)
                                           /\ InSeason(m, season_id))), n)

\* sum(1 for m in matches if m.winner_id == wrestler_id)
RECURSIVE CountWins(_, _)
CountWins(matches, wrestler_id) ==
    IF matches = <<>>
    THEN 0
    ELSE (IF Head(matches).winner_id = wrestler_id THEN 1 ELSE 0)
         + CountWins(Tail(matches), wrestler_id)

\* A win rate whose denominator counts only the matches the wrestler
\* entered in the wrestler1 slot.
calculate_win_rate_slot1(matches, wrestler_id) ==
    IF matches = <<>>
    THEN <<0, 1>>
    ELSE LET mine == SelectSeq(matches,
                               LAMBDA m : m.wrestler1_id = wrestler_id)
         IN IF mine = <<>> THEN <<0, 1>>
            ELSE <<CountWins(mine, wrestler_id), Len(mine)>>

\* calculate_win_rate: wins / len(matches), 0.0 for an empty list.
calculate_win_rate(matches, wrestler_id) ==
    IF matches = <<>>
    THEN <<0, 1>>
    ELSE <<CountWins(matches, wrestler_id), Len(matches)>>

\* The block of matches calculate_streak walks.
StreakLimit == 20

\* calculate_streak, the loop over reversed(matches): last_result is
\* "None" before the first match, then the first match's outcome; the loop
\* breaks at the first match whose outcome differs from it.
RECURSIVE StreakLoop(_, _, _, _, _)
StreakLoop(rev, wrestler_id, i, streak, last_result) ==
    IF i > Len(rev)
    THEN <<streak, last_result>>
    ELSE LET is_win == IF rev[i].winner_id = wrestler_id THEN "True"
                                                         ELSE "False"
         IN IF last_result = "None"
            THEN StreakLoop(rev, wrestler_id, i + 1, 1, is_win)
            ELSE IF last_result = is_win
                 THEN StreakLoop(rev, wrestler_id, i + 1, streak + 1,
                                 last_result)
                 ELSE <<streak, last_result>>

\* A streak counted from the newest match of the block backwards.
calculate_streak_newest_first(table, wrestler_id, season_id) ==
    LET matches == get_recent_matches(table, wrestler_id, season_id,
                                      StreakLimit)
    IN IF matches = <<>>
       THEN 0
       ELSE LET r == StreakLoop(matches, wrestler_id, 1, 0, "None")
            IN IF r[2] = "True" THEN r[1] ELSE 0 - r[1]

\* calculate_streak: the same query as get_recent_matches with limit(20),
\* then "return streak if last_result else -streak".
calculate_streak(table, wrestler_id, season_id) ==
    LET matches == get_recent_matches(table, wrestler_id, season_id,
                                      StreakLimit)
    IN IF matches = <<>>
       THEN 0
       ELSE LET r == StreakLoop(Reversed(matches), wrestler_id, 1, 0, "None")
            IN IF r[2] = "True" THEN r[1] ELSE 0 - r[1]

(***************************************************************************)
(* The tables the calculators are tried on: up to MaxMatches matches, each *)
(* between one of three pairs of wrestlers (wrestler 2 meets 1 in either   *)
(* slot, and 3), won by either side; the matches dated up to a split day   *)
(* belong to season 1 and the later ones to season 2; the rows are stored  *)
(* oldest first or newest first.                                           *)
(***************************************************************************)
Wrestlers == {1, 2, 3}

Seasons == {1, 2}

Pairings == {<<1, 2>>, <<2, 1>>, <<2, 3>>}

Bouts == {[pair |-> p, won |-> s] : p \in Pairings, s \in {1, 2}}

RowLayouts == {"oldest_first", "newest_first"}

MakeTable(bouts, split, layout) ==
    LET n == Len(bouts)
        day(i) == IF layout = "oldest_first" THEN i ELSE n + 1 - i
    IN [i \in 1..n |->
           [date |-> day(i),
            wrestler1_id |-> bouts[i].pair[1],
            wrestler2_id |-> bouts[i].pair[2],
            winner_id |-> bouts[i].pair[bouts[i].won],
            season_id |-> IF day(i) <= split THEN 1 ELSE 2]]

Tables ==
    UNION {{MakeTable(b, split, layout) :
                b \in [1..n -> Bouts], split \in 0..n, layout \in RowLayouts} :
           n \in 0..MaxMatches}

FeatInit ==
    /\ artifact = NoArtifact
    /\ predictor = None
    /\ heap = <<>>
    /\ features = <<>>
    /\ bindOut = NoBind
    /\ predOut = NoPredict
    /\ modelCalls = 0
    /\ ThreadsIdle
    /\ db \in Tables
    /\ NoSideTables
    /\ query = NoQuery
    /\ statOut = NoStat

featFrame == <<artifact, predictor, heap, features, bindOut, predOut,
               modelCalls, threadVars, db, result_types, match_stats,
               seasons, wrestlers, weight_classes>>

\* calculate_win_rate on a list as it stands (the unit tests pass lists
\* that hold matches of other wrestlers too).
CallCalculateWinRate(wrestler_id) ==
    /\ query.op = "none"
    /\ query' = [op |-> "calculate_win_rate", wrestler_id |-> wrestler_id,
                 season_id |-> None]
    /\ statOut' = [NoStat EXCEPT !.matches = db,
                                 !.win_rate = calculate_win_rate(db, wrestler_id)]
    /\ UNCHANGED featFrame

\* compute_wrestler_features: win_rate_last_3 over matches_3.
CallWinRateLast3(wrestler_id, season_id) ==
    /\ query.op = "none"
    /\ query' = [op |-> "win_rate_last_3", wrestler_id |-> wrestler_id,
                 season_id |-> season_id]
    /\ LET matches_3 == get_recent_matches(db, wrestler_id, season_id, 3)
       IN statOut' = [NoStat EXCEPT
                         !.matches = matches_3,
                         !.win_rate = calculate_win_rate(matches_3, wrestler_id)]
    /\ UNCHANGED featFrame

\* compute_wrestler_features: streak.
CallCalculateStreak(wrestler_id, season_id) ==
    /\ query.op = "none"
    /\ query' = [op |-> "calculate_streak", wrestler_id |-> wrestler_id,
                 season_id |-> season_id]
    /\ statOut' = [NoStat EXCEPT
                      !.streak = calculate_streak(db, wrestler_id, season_id)]
    /\ UNCHANGED featFrame

FeatNext ==
    \E wrestler_id \in Wrestlers, season_id \in Seasons \cup {None} :
        \/ CallCalculateWinRate(wrestler_id)
        \/ CallWinRateLast3(wrestler_id, season_id)
        \/ CallCalculateStreak(wrestler_id, season_id)

SpecFeat == FeatInit /\ [][FeatNext]_vars

\* The matches of the queried wrestler in the queried scope, and the one
\* with the latest date among a set of them.
History == {i \in DOMAIN db : /\ Involves(db[i], query.wrestler_id)
                              /\ InSeason(db[i], query.season_id)}

Latest(S) == CHOOSE i \in S : \A j \in S : db[j].date <= db[i].date

Won(i) == db[i].winner_id = query.wrestler_id

\* C8: for every non-empty match history the streak is positive if the
\* competitor won their most recent match and negative if they lost it.
StreakSignIsLatestOutcome ==
    (query.op = "calculate_streak" /\ History # {}) =>
        IF Won(Latest(History)) THEN statOut.streak > 0
                                ELSE statOut.streak < 0

\* C9: whenever the most recent match is a win and the match immediately
\* before it is a loss, the streak is 1.
StreakIsOneAfterLossThenWin ==
    (/\ query.op = "calculate_streak"
     /\ Cardinality(History) >= 2
     /\ Won(Latest(History))
     /\ ~Won(Latest(History \ {Latest(History)})))
        => statOut.streak = 1

NoScore == -1

\* A bout between wrestlers 1 and 2 in one dual meet of season 1, won by
\* the wrestler1 slot by decision, with no scores entered.
PlainBout == [pair |-> <<1, 2>>, won |-> 1, season |-> 1, meet |-> 1,
              wc |-> 1, s1 |-> NoScore, s2 |-> NoScore, rt |-> 1]

\* The matches table holding the given bouts, one a day, oldest first.
MatchRows(bouts) ==
    [i \in 1..Len(bouts) |->
        [id |-> i,
         date |-> i,
         wrestler1_id |-> bouts[i].pair[1],
         wrestler2_id |-> bouts[i].pair[2],
         winner_id |-> bouts[i].pair[bouts[i].won],
         season_id |-> bouts[i].season,
         meet_id |-> bouts[i].meet,
         weight_class_id |-> bouts[i].wc,
         wrestler1_score |-> bouts[i].s1,
         wrestler2_score |-> bouts[i].s2,
         result_type_id |-> bouts[i].rt]]

BoutLists(bouts) == UNION {[1..n -> bouts] : n \in 0..MaxMatches}

\* The tables on file and the arguments of the call to make.  The
\* statistics read neither the wrestlers nor the weight_classes table.
Database(matches, result_type_rows, match_stats_rows, season_rows, call) ==
    /\ db = matches
    /\ result_types = result_type_rows
    /\ match_stats = match_stats_rows
    /\ seasons = season_rows
    /\ wrestlers = <<>>
    /\ weight_classes = <<>>
    /\ query = call

\* The arguments of a statistics call.
StatQuery(op, wrestler_id, season_id, weight_class_id, opponent_id) ==
    [op |-> op, wrestler_id |-> wrestler_id, season_id |-> season_id,
     weight_class_id |-> weight_class_id, opponent_id |-> opponent_id]

(***************************************************************************)
(* The point calculators of app/ml/features.py.  np.mean(xs) is the        *)
(* quotient sum(xs) / len(xs).                                             *)
(***************************************************************************)
\* "if match.wrestler1_score is None or match.wrestler2_score is None:
\*  continue" skips the records this rejects.
Scored(m) == m.wrestler1_score # NoScore /\ m.wrestler2_score # NoScore

\* np.mean(xs) if xs else 0.0
Mean(xs) == IF xs = <<>> THEN <<0, 1>> ELSE <<SeqSum(xs), Len(xs)>>

\* A point differential taken as opponent score minus own score.
calculate_avg_point_diff_reversed(matches, wrestler_id) ==
    IF matches = <<>>
    THEN <<0, 1>>
    ELSE LET scored == SelectSeq(matches, Scored)
             diffs == [i \in DOMAIN scored |->
                          IF scored[i].wrestler1_id = wrestler_id
                          THEN scored[i].wrestler2_score
                               - scored[i].wrestler1_score
                          ELSE scored[i].wrestler1_score
                               - scored[i].wrestler2_score]
         IN Mean(diffs)

\* calculate_avg_point_diff: the mean of own score minus opponent score.
calculate_avg_point_diff(matches, wrestler_id) ==
    IF matches = <<>>
    THEN <<0, 1>>
    ELSE LET scored == SelectSeq(matches, Scored)
             diffs == [i \in DOMAIN scored |->
                          IF scored[i].wrestler1_id = wrestler_id
                          THEN scored[i].wrestler1_score
                               - scored[i].wrestler2_score
                          ELSE scored[i].wrestler2_score
                               - scored[i].wrestler1_score]
         IN Mean(diffs)

\* A mean of the scored points that counts a missing score as 0 points.
calculate_avg_points_scored_zero_fill(matches, wrestler_id) ==
    IF matches = <<>>
    THEN <<0, 1>>
    ELSE LET own(m) == IF m.wrestler1_id = wrestler_id
                       THEN m.wrestler1_score ELSE m.wrestler2_score
             scores == [i \in DOMAIN matches |->
                           IF own(matches[i]) = NoScore
                           THEN 0 ELSE own(matches[i])]
         IN Mean(scores)

\* calculate_avg_points_scored: the mean of the wrestler's own score.
calculate_avg_points_scored(matches, wrestler_id) ==
    IF matches = <<>>
    THEN <<0, 1>>
    ELSE LET scored == SelectSeq(matches, Scored)
             scores == [i \in DOMAIN scored |->
                           IF scored[i].wrestler1_id = wrestler_id
                           THEN scored[i].wrestler1_score
                           ELSE scored[i].wrestler2_score]
         IN Mean(scores)

\* calculate_avg_points_allowed: the mean of the opponent's score.
calculate_avg_points_allowed(matches, wrestler_id) ==
    IF matches = <<>>
    THEN <<0, 1>>
    ELSE LET scored == SelectSeq(matches, Scored)
             allowed == [i \in DOMAIN scored |->
                            IF scored[i].wrestler1_id = wrestler_id
                            THEN scored[i].wrestler2_score
                            ELSE scored[i].wrestler1_score]
         IN Mean(allowed)

Abs(a) == IF a < 0 THEN -a ELSE a

\* The largest score difference of a close match.
CloseMargin == 3

\* A close-match win rate that takes a difference of CloseMargin as not
\* close.
calculate_close_match_win_rate_strict(matches, wrestler_id) ==
    IF matches = <<>>
    THEN <<0, 1>>
    ELSE LET close_matches ==
                 SelectSeq(matches,
                           LAMBDA m : /\ Scored(m)
                                      /\ Abs(m.wrestler1_score
                                             - m.wrestler2_score) < CloseMargin)
         IN IF close_matches = <<>>
            THEN <<0, 1>>
            ELSE <<CountWins(close_matches, wrestler_id), Len(close_matches)>>

\* calculate_close_match_win_rate: the win rate over the close matches.
calculate_close_match_win_rate(matches, wrestler_id) ==
    IF matches = <<>>
    THEN <<0, 1>>
    ELSE LET close_matches ==
                 SelectSeq(matches,
                           LAMBDA m : /\ Scored(m)
                                      /\ Abs(m.wrestler1_score
                                             - m.wrestler2_score) <= CloseMargin)
         IN IF close_matches = <<>>
            THEN <<0, 1>>
            ELSE <<CountWins(close_matches, wrestler_id), Len(close_matches)>>

\* a/b - c/d and a/b = c/d on quotients.
RatSub(p, q) == <<p[1] * q[2] - q[1] * p[2], p[2] * q[2]>>

RatEq(p, q) == p[1] * q[2] = q[1] * p[2]

(***************************************************************************)
(* IEEE 754 binary64, the float of Python and numpy.  A finite double is   *)
(* [neg, bits, frac]: the sign, the binary digits of an integer (most      *)
(* significant first, none for zero) and the number of those digits that   *)
(* follow the binary point; trailing zeros after the point are dropped,    *)
(* so equal doubles are equal records.  Division and subtraction round to  *)
(* nearest, ties to even, to Precision significant digits.  The operands   *)
(* here are far from the exponent limits.                                  *)
(***************************************************************************)
Precision == 53

Zero64 == [neg |-> FALSE, bits |-> <<>>, frac |-> 0]

Zeros(k) == [i \in 1..k |-> 0]

Max(a, b) == IF a < b THEN b ELSE a

RECURSIVE NatBits(_)
NatBits(k) == IF k = 0 THEN <<>> ELSE NatBits(k \div 2) \o <<k % 2>>

Padded(k, width) == Zeros(width - Len(NatBits(k))) \o NatBits(k)

\* The first 8 * blocks binary digits of r / n after the point (r < n), a
\* byte at a time, and the remainder left after them.
RECURSIVE FracDigits(_, _, _)
FracDigits(r, n, blocks) ==
    IF blocks = 0
    THEN <<>>
    ELSE Padded((r * 256) \div n, 8) \o FracDigits((r * 256) % n, n, blocks - 1)

RECURSIVE FracRem(_, _, _)
FracRem(r, n, blocks) ==
    IF blocks = 0 THEN r ELSE FracRem((r * 256) % n, n, blocks - 1)

StripLeading(bits) ==
    IF \A i \in DOMAIN bits : bits[i] = 0
    THEN <<>>
    ELSE LET first == CHOOSE i \in DOMAIN bits :
                          bits[i] = 1 /\ \A j \in 1..(i - 1) : bits[j] = 0
         IN SubSeq(bits, first, Len(bits))

Canonical(neg, bits, frac) ==
    IF bits = <<>>
    THEN Zero64
    ELSE LET last == CHOOSE i \in DOMAIN bits :
                         /\ bits[i] = 1
                         /\ \A j \in (i + 1)..Len(bits) : bits[j] = 0
             drop == Min(Len(bits) - last, frac)
         IN [neg |-> neg, bits |-> SubSeq(bits, 1, Len(bits) - drop),
             frac |-> frac - drop]

Increment(bits) ==
    IF \A i \in DOMAIN bits : bits[i] = 1
    THEN <<1>> \o Zeros(Len(bits))
    ELSE LET p == CHOOSE i \in DOMAIN bits :
                      /\ bits[i] = 0
                      /\ \A j \in (i + 1)..Len(bits) : bits[j] = 1
         IN [i \in DOMAIN bits |-> IF i < p THEN bits[i]
                                   ELSE IF i = p THEN 1 ELSE 0]

\* Round to nearest, ties to even; sticky tells of non-zero digits beyond
\* the ones given.
Round64(neg, rawBits, frac, sticky) ==
    LET bits == StripLeading(rawBits)
        L == Len(bits)
    IN IF L <= Precision
       THEN Canonical(neg, bits, frac)
       ELSE LET kept == SubSeq(bits, 1, Precision)
                rest == \/ sticky
                        \/ \E i \in (Precision + 2)..L : bits[i] = 1
                up == /\ bits[Precision + 1] = 1
                      /\ (rest \/ kept[Precision] = 1)
            IN Canonical(neg, IF up THEN Increment(kept) ELSE kept,
                         frac - (L - Precision))

\* The double a / n of an integer a and a positive integer n.
F64Div(a, n) ==
    LET m == Abs(a)
        blocks == Precision \div 8 + 2
    IN Round64(a < 0,
               NatBits(m \div n) \o FracDigits(m % n, n, blocks),
               8 * blocks, FracRem(m % n, n, blocks) # 0)

\* a < b for digit strings of one length.
LessBits(a, b) ==
    \E i \in DOMAIN a : /\ a[i] < b[i]
                        /\ \A j \in 1..(i - 1) : a[j] = b[j]

\* a - b for digit strings of one length, a >= b.
SubBits(a, b) ==
    LET L == Len(a)
        borrow(i) == LessBits(SubSeq(a, i + 1, L), SubSeq(b, i + 1, L))
    IN [i \in 1..L |-> (a[i] - b[i] - (IF borrow(i) THEN 1 ELSE 0)) % 2]

\* The double x - y of two non-negative doubles.
F64Sub(x, y) ==
    LET frac == Max(x.frac, y.frac)
        xr == x.bits \o Zeros(frac - x.frac)
        yr == y.bits \o Zeros(frac - y.frac)
        L == Max(Len(xr), Len(yr))
        xa == Zeros(L - Len(xr)) \o xr
        ya == Zeros(L - Len(yr)) \o yr
    IN IF LessBits(xa, ya)
       THEN Round64(TRUE, SubBits(ya, xa), frac, FALSE)
       ELSE Round64(FALSE, SubBits(xa, ya), frac, FALSE)

\* The double a quotient evaluates to.
F64(q) == F64Div(q[1], q[2])

(***************************************************************************)
(* calculate_bonus_win_rate.  A result_types row is [id, code].            *)
(***************************************************************************)
\* str.upper() on the codes that occur.
Upper(code) == IF code = "pin" THEN "PIN" ELSE code

\* result_type_map.get(result_type_id, '')
CodeOf(table, result_type_id) ==
    IF \E i \in DOMAIN table : table[i].id = result_type_id
    THEN table[CHOOSE i \in DOMAIN table : table[i].id = result_type_id].code
    ELSE ""

BonusCodes == {"PIN", "FALL", "TF", "TECH", "MD", "MAJ"}

\* A bonus win rate over all the matches of the list.
calculate_bonus_win_rate_per_match(table, matches, wrestler_id) ==
    IF matches = <<>>
    THEN <<0, 1>>
    ELSE LET wins == SelectSeq(matches,
                               LAMBDA m : m.winner_id = wrestler_id)
             bonus == SelectSeq(wins,
                        LAMBDA m : Upper(CodeOf(table, m.result_type_id))
                                       \in BonusCodes)
         IN IF wins = <<>> THEN <<0, 1>> ELSE <<Len(bonus), Len(matches)>>

\* calculate_bonus_win_rate: bonus wins / wins.
calculate_bonus_win_rate(table, matches, wrestler_id) ==
    IF matches = <<>>
    THEN <<0, 1>>
    ELSE LET wins == SelectSeq(matches,
                               LAMBDA m : m.winner_id = wrestler_id)
             bonus == SelectSeq(wins,
                        LAMBDA m : Upper(CodeOf(table, m.result_type_id))
                                       \in BonusCodes)
         IN IF wins = <<>> THEN <<0, 1>> ELSE <<Len(bonus), Len(wins)>>

(***************************************************************************)
(* The split statistics.                                                   *)
(***************************************************************************)
\* wins / len(matches) if matches else 0.5
RateOrHalf(wins, matches) ==
    IF matches # <<>> THEN <<wins, Len(matches)>> ELSE <<1, 2>>

\* A dual/tournament split whose rates are 0.0 for an empty partition.
get_dual_tournament_stats_zero_default(table, wrestler_id, season_id) ==
    LET all_matches ==
            SelectSeq(table, LAMBDA m : /\ Involves(m, wrestler_id)
                                         /\ InSeason(m, season_id))
        dual_matches == SelectSeq(all_matches, LAMBDA m : m.meet_id # None)
        tournament_matches ==
            SelectSeq(all_matches, LAMBDA m : m.meet_id = None)
    IN [dual_meet_wins |-> CountWins(dual_matches, wrestler_id),
        dual_meet_matches |-> Len(dual_matches),
        dual_meet_win_rate |->
            calculate_win_rate(dual_matches, wrestler_id),
        tournament_wins |-> CountWins(tournament_matches, wrestler_id),
        tournament_matches |-> Len(tournament_matches),
        tournament_win_rate |->
            calculate_win_rate(tournament_matches, wrestler_id)]

\* get_dual_tournament_stats: dual matches have a meet_id, tournament
\* matches have none.
get_dual_tournament_stats(table, wrestler_id, season_id) ==
    LET all_matches ==
            SelectSeq(table, LAMBDA m : /\ Involves(m, wrestler_id)
                                         /\ InSeason(m, season_id))
        dual_matches == SelectSeq(all_matches, LAMBDA m : m.meet_id # None)
        tournament_matches ==
            SelectSeq(all_matches, LAMBDA m : m.meet_id = None)
        dual_wins == CountWins(dual_matches, wrestler_id)
        tournament_wins == CountWins(tournament_matches, wrestler_id)
    IN IF all_matches = <<>>
       THEN [dual_meet_wins |-> 0,
             dual_meet_matches |-> 0,
             dual_meet_win_rate |-> <<1, 2>>,
             tournament_wins |-> 0,
             tournament_matches |-> 0,
             tournament_win_rate |-> <<1, 2>>]
       ELSE [dual_meet_wins |-> dual_wins,
             dual_meet_matches |-> Len(dual_matches),
             dual_meet_win_rate |-> RateOrHalf(dual_wins, dual_matches),
             tournament_wins |-> tournament_wins,
             tournament_matches |-> Len(tournament_matches),
             tournament_win_rate |->
                 RateOrHalf(tournament_wins, tournament_matches)]

\* The weight-class statistics when there is nothing to count.
NoWeightClassStats ==
    [weight_class_matches |-> 0, weight_class_wins |-> 0,
     weight_class_win_rate |-> <<1, 2>>]

\* get_weight_class_stats: the matches wrestled at one weight class.
get_weight_class_stats(table, wrestler_id, weight_class_id, season_id) ==
    LET matches ==
            SelectSeq(table,
                      LAMBDA m : /\ Involves(m, wrestler_id)
                                 /\ m.weight_class_id = weight_class_id
                                 /\ InSeason(m, season_id))
        wins == CountWins(matches, wrestler_id)
    IN IF matches = <<>>
       THEN NoWeightClassStats
       ELSE [weight_class_matches |-> Len(matches),
             weight_class_wins |-> wins,
             weight_class_win_rate |-> RateOrHalf(wins, matches)]

(***************************************************************************)
(* The duration statistics.  A match_stats row is                          *)
(* [match_id, duration_seconds]; a null duration is None, and the          *)
(* durations on file are positive.                                         *)
(***************************************************************************)
\* The duration beyond which a match went to overtime.
OvertimeSeconds == 420

\* MatchStats.match_id.in_(match_ids)
StatsOf(table, matches) ==
    SelectSeq(table, LAMBDA ms : \E i \in DOMAIN matches :
                                     matches[i].id = ms.match_id)

\* calculate_overtime_rate: overtime rows / rows found for the matches.
calculate_overtime_rate(table, matches) ==
    IF matches = <<>>
    THEN <<0, 1>>
    ELSE LET found == StatsOf(table, matches)
             overtime == SelectSeq(found,
                             LAMBDA ms : /\ ms.duration_seconds # None
                                         /\ ms.duration_seconds
                                                > OvertimeSeconds)
         IN IF found = <<>> THEN <<0, 1>> ELSE <<Len(overtime), Len(found)>>

\* calculate_avg_duration: the mean duration of the rows that have one.
calculate_avg_duration(table, matches) ==
    IF matches = <<>>
    THEN <<0, 1>>
    ELSE LET found == SelectSeq(StatsOf(table, matches),
                                LAMBDA ms : ms.duration_seconds # None)
             durations == [i \in DOMAIN found |-> found[i].duration_seconds]
         IN IF found = <<>> THEN <<0, 1>> ELSE Mean(durations)

(***************************************************************************)
(* Career, season and previous-season statistics.  A seasons row is        *)
(* [id, start_year]; no two seasons start in the same year.                *)
(***************************************************************************)
\* Career statistics that ignore the season asked for.
get_career_stats_all_seasons(table, wrestler_id, season_id) ==
    LET all_matches ==
            SelectSeq(table, LAMBDA m : Involves(m, wrestler_id))
        wins == CountWins(all_matches, wrestler_id)
    IN IF all_matches = <<>>
       THEN [career_matches |-> 0, career_wins |-> 0, career_losses |-> 0]
       ELSE [career_matches |-> Len(all_matches),
             career_wins |-> wins,
             career_losses |-> Len(all_matches) - wins]

\* get_career_stats: all the wrestler's matches, of one season if given.
get_career_stats(table, wrestler_id, season_id) ==
    LET all_matches ==
            SelectSeq(table, LAMBDA m : /\ Involves(m, wrestler_id)
                                         /\ InSeason(m, season_id))
        wins == CountWins(all_matches, wrestler_id)
    IN IF all_matches = <<>>
       THEN [career_matches |-> 0, career_wins |-> 0, career_losses |-> 0]
       ELSE [career_matches |-> Len(all_matches),
             career_wins |-> wins,
             career_losses |-> Len(all_matches) - wins]

\* The season statistics when there is nothing to count.
NoSeasonStats ==
    [season_matches |-> 0, season_wins |-> 0, season_win_rate |-> <<0, 1>>]

\* Season statistics that report 0.5 for a season without matches.
get_season_stats_half_default(table, wrestler_id, season_id) ==
    LET matches == SelectSeq(table, LAMBDA m : /\ Involves(m, wrestler_id)
                                                /\ m.season_id = season_id)
        wins == CountWins(matches, wrestler_id)
    IN IF matches = <<>>
       THEN [NoSeasonStats EXCEPT !.season_win_rate = <<1, 2>>]
       ELSE [season_matches |-> Len(matches),
             season_wins |-> wins,
             season_win_rate |-> <<wins, Len(matches)>>]

\* get_season_stats: the wrestler's matches of one season.
get_season_stats(table, wrestler_id, season_id) ==
    LET matches == SelectSeq(table, LAMBDA m : /\ Involves(m, wrestler_id)
                                                /\ m.season_id = season_id)
        wins == CountWins(matches, wrestler_id)
    IN IF matches = <<>>
       THEN NoSeasonStats
       ELSE [season_matches |-> Len(matches),
             season_wins |-> wins,
             season_win_rate |-> <<wins, Len(matches)>>]

\* query.filter(...).first(): the index of the first row that passes the
\* filter, None if none does; hits[k] tells whether row k passes.
First(hits) ==
    IF \E k \in DOMAIN hits : hits[k]
    THEN CHOOSE k \in DOMAIN hits : hits[k] /\ \A j \in 1..(k - 1) : ~hits[j]
    ELSE None

\* A previous season found by id: the season whose id is one less.
get_previous_season_win_rate_by_id(table, season_rows, wrestler_id, current_season_id) ==
    LET current == First([k \in DOMAIN season_rows |->
                             season_rows[k].id = current_season_id])
        prev == First([k \in DOMAIN season_rows |->
                          season_rows[k].id = current_season_id - 1])
    IN IF current = None \/ prev = None
       THEN <<1, 2>>
       ELSE get_season_stats(table, wrestler_id,
                             season_rows[prev].id).season_win_rate

\* get_previous_season_win_rate: the season that started the year before
\* the current one.
get_previous_season_win_rate(table, season_rows, wrestler_id, current_season_id) ==
    LET current == First([k \in DOMAIN season_rows |->
                             season_rows[k].id = current_season_id])
    IN IF current = None
       THEN <<1, 2>>
       ELSE LET prev == First([k \in DOMAIN season_rows |->
                                  season_rows[k].start_year
                                      = season_rows[current].start_year - 1])
            IN IF prev = None
               THEN <<1, 2>>
               ELSE get_season_stats(table, wrestler_id,
                                     season_rows[prev].id).season_win_rate

(***************************************************************************)
(* Activity metrics.  reference_date is a day number; the matches on file  *)
(* are dated before it.                                                    *)
(***************************************************************************)
\* calculate_days_since_last_match: 0 when there is no earlier match.
calculate_days_since_last_match(table, wrestler_id, reference_date) ==
    LET earlier == OrderByDateDesc(
                       SelectSeq(table,
                                 LAMBDA m : /\ Involves(m, wrestler_id)
                                            /\ m.date < reference_date))
    IN IF earlier = <<>> THEN 0 ELSE reference_date - earlier[1].date

\* calculate_matches_per_week: matches * 7 / window_days, window_days = 30.
calculate_matches_per_week(table, wrestler_id, reference_date) ==
    LET window_start == reference_date - 30
        matches == SelectSeq(table,
                             LAMBDA m : /\ Involves(m, wrestler_id)
                                        /\ m.date >= window_start
                                        /\ m.date < reference_date)
    IN <<Len(matches) * 7, 30>>

\* reference_date.year: day 0 is the first day of 2024.
YearOf(day) == 2024 + day \div 366

(***************************************************************************)
(* compute_wrestler_features: the feature dict of one wrestler.            *)
(***************************************************************************)
compute_wrestler_features(table, result_type_rows, match_stats_rows, season_rows, wrestler_id, season_id, weight_class_id, reference_date) ==
    LET matches_3 == get_recent_matches(table, wrestler_id, season_id, 3)
        matches_5 == get_recent_matches(table, wrestler_id, season_id, 5)
        matches_10 == get_recent_matches(table, wrestler_id, season_id, 10)
        matches_15 == get_recent_matches(table, wrestler_id, season_id, 15)
        career_stats == get_career_stats(table, wrestler_id, season_id)
        season_stats == IF season_id # None
                        THEN get_season_stats(table, wrestler_id, season_id)
                        ELSE NoSeasonStats
        prev_year_win_rate ==
            IF season_id # None
            THEN get_previous_season_win_rate(table, season_rows,
                                              wrestler_id, season_id)
            ELSE <<1, 2>>
        avg_scored_3 == calculate_avg_points_scored(matches_3, wrestler_id)
        avg_allowed_3 == calculate_avg_points_allowed(matches_3, wrestler_id)
        avg_scored_5 == calculate_avg_points_scored(matches_5, wrestler_id)
        avg_allowed_5 == calculate_avg_points_allowed(matches_5, wrestler_id)
        avg_scored_10 == calculate_avg_points_scored(matches_10, wrestler_id)
        avg_allowed_10 ==
            calculate_avg_points_allowed(matches_10, wrestler_id)
        dual_tournament_stats ==
            get_dual_tournament_stats(table, wrestler_id, season_id)
        wc_stats == IF weight_class_id # None
                    THEN get_weight_class_stats(table, wrestler_id,
                                                weight_class_id, season_id)
                    ELSE NoWeightClassStats
    IN << <<"career_wins", career_stats.career_wins>>,
          <<"career_losses", career_stats.career_losses>>,
          <<"career_matches", career_stats.career_matches>>,
          <<"season_wins", season_stats.season_wins>>,
          <<"season_matches", season_stats.season_matches>>,
          <<"season_win_rate", season_stats.season_win_rate>>,
          <<"prev_yearly_win_rate", prev_year_win_rate>>,
          <<"experience", career_stats.career_matches>>,
          <<"win_rate_last_3", calculate_win_rate(matches_3, wrestler_id)>>,
          <<"win_rate_last_5", calculate_win_rate(matches_5, wrestler_id)>>,
          <<"win_rate_last_10", calculate_win_rate(matches_10, wrestler_id)>>,
          <<"win_rate_last_15", calculate_win_rate(matches_15, wrestler_id)>>,
          <<"streak", calculate_streak(table, wrestler_id, season_id)>>,
          <<"bonus_win_rate_last_5",
            calculate_bonus_win_rate(result_type_rows, matches_5,
                                     wrestler_id)>>,
          <<"bonus_win_rate_last_10",
            calculate_bonus_win_rate(result_type_rows, matches_10,
                                     wrestler_id)>>,
          <<"close_match_win_rate_last_5",
            calculate_close_match_win_rate(matches_5, wrestler_id)>>,
          <<"close_match_win_rate_last_10",
            calculate_close_match_win_rate(matches_10, wrestler_id)>>,
          <<"avg_points_scored_last_3", avg_scored_3>>,
          <<"avg_points_allowed_last_3", avg_allowed_3>>,
          <<"avg_point_differential_last_3",
            RatSub(avg_scored_3, avg_allowed_3)>>,
          <<"avg_points_scored_last_5", avg_scored_5>>,
          <<"avg_points_allowed_last_5", avg_allowed_5>>,
          <<"avg_point_differential_last_5",
            RatSub(avg_scored_5, avg_allowed_5)>>,
          <<"avg_points_scored_last_10", avg_scored_10>>,
          <<"avg_points_allowed_last_10", avg_allowed_10>>,
          <<"avg_point_differential_last_10",
            RatSub(avg_scored_10, avg_allowed_10)>>,
          <<"overtime_rate_last_5",
            calculate_overtime_rate(match_stats_rows, matches_5)>>,
          <<"overtime_rate_last_10",
            calculate_overtime_rate(match_stats_rows, matches_10)>>,
          <<"avg_duration_last_5",
            calculate_avg_duration(match_stats_rows, matches_5)>>,
          <<"avg_duration_last_10",
            calculate_avg_duration(match_stats_rows, matches_10)>>,
          <<"dual_meet_wins", dual_tournament_stats.dual_meet_wins>>,
          <<"dual_meet_matches", dual_tournament_stats.dual_meet_matches>>,
          <<"dual_meet_win_rate", dual_tournament_stats.dual_meet_win_rate>>,
          <<"tournament_wins", dual_tournament_stats.tournament_wins>>,
          <<"tournament_matches", dual_tournament_stats.tournament_matches>>,
          <<"tournament_win_rate",
            dual_tournament_stats.tournament_win_rate>>,
          <<"weight_class_matches", wc_stats.weight_class_matches>>,
          <<"weight_class_wins", wc_stats.weight_class_wins>>,
          <<"weight_class_win_rate", wc_stats.weight_class_win_rate>>,
          <<"days_since_last_match",
            calculate_days_since_last_match(table, wrestler_id,
                                            reference_date)>>,
          <<"matches_per_week_last_30_days",
            calculate_matches_per_week(table, wrestler_id, reference_date)>>,
          <<"year", YearOf(reference_date)>> >>

(***************************************************************************)
(* get_h2h_stats and compute_features_for_prediction.                      *)
(***************************************************************************)
\* get_h2h_stats: (total, wrestler1_wins, wrestler2_wins) over the matches
\* between the two, in either slot order.
get_h2h_stats(table, wrestler1_id, wrestler2_id) ==
    LET matches ==
            SelectSeq(table,
                      LAMBDA m : \/ /\ m.wrestler1_id = wrestler1_id
                                    /\ m.wrestler2_id = wrestler2_id
                                 \/ /\ m.wrestler1_id = wrestler2_id
                                    /\ m.wrestler2_id = wrestler1_id)
    IN <<Len(matches), CountWins(matches, wrestler1_id),
         CountWins(matches, wrestler2_id)>>

\* A head-to-head win rate that is 0.0 without matches.
H2HWinRateZeroDefault(h2h) ==
    IF h2h[1] > 0 THEN <<h2h[2], h2h[1]>> ELSE <<0, 1>>

\* h2h_w1_wins / h2h_total if h2h_total > 0 else 0.5
H2HWinRate(h2h) == IF h2h[1] > 0 THEN <<h2h[2], h2h[1]>> ELSE <<1, 2>>

\* {f'w1_{k}': v for k, v in w1_features.items()}
Prefixed(prefix, d) == [i \in DOMAIN d |-> <<prefix \o d[i][1], d[i][2]>>]

\* A composition whose differentials are wrestler 2 minus wrestler 1.
ComposeReversed(w1_features, w2_features, h2h) ==
    Prefixed("w1_", w1_features) \o Prefixed("w2_", w2_features)
    \o << <<"h2h_matches", h2h[1]>>,
          <<"h2h_win_rate", H2HWinRate(h2h)>>,
          <<"win_rate_diff_5",
            RatSub(Lookup(w2_features, "win_rate_last_5"),
                   Lookup(w1_features, "win_rate_last_5"))>>,
          <<"win_rate_diff_10",
            RatSub(Lookup(w2_features, "win_rate_last_10"),
                   Lookup(w1_features, "win_rate_last_10"))>>,
          <<"point_diff_last_5",
            RatSub(Lookup(w2_features, "avg_point_differential_last_5"),
                   Lookup(w1_features, "avg_point_differential_last_5"))>>,
          <<"experience_diff",
            Lookup(w2_features, "experience")
                - Lookup(w1_features, "experience")>>,
          <<"rest_diff",
            Lookup(w2_features, "days_since_last_match")
                - Lookup(w1_features, "days_since_last_match")>> >>

\* compute_features_for_prediction: the dict compiled from the two feature
\* dicts and the head-to-head record.
Compose(w1_features, w2_features, h2h) ==
    Prefixed("w1_", w1_features) \o Prefixed("w2_", w2_features)
    \o << <<"h2h_matches", h2h[1]>>,
          <<"h2h_win_rate", H2HWinRate(h2h)>>,
          <<"win_rate_diff_5",
            RatSub(Lookup(w1_features, "win_rate_last_5"),
                   Lookup(w2_features, "win_rate_last_5"))>>,
          <<"win_rate_diff_10",
            RatSub(Lookup(w1_features, "win_rate_last_10"),
                   Lookup(w2_features, "win_rate_last_10"))>>,
          <<"point_diff_last_5",
            RatSub(Lookup(w1_features, "avg_point_differential_last_5"),
                   Lookup(w2_features, "avg_point_differential_last_5"))>>,
          <<"experience_diff",
            Lookup(w1_features, "experience")
                - Lookup(w2_features, "experience")>>,
          <<"rest_diff",
            Lookup(w1_features, "days_since_last_match")
                - Lookup(w2_features, "days_since_last_match")>> >>

(***************************************************************************)
(* The statistics calls on full match records: a database and the          *)
(* arguments of one call, then the call.                                   *)
(***************************************************************************)
\* Score sheets: a win by exactly CloseMargin points, a loss by more, a
\* sheet with one score missing and a forfeit with none.
ScoreSheets ==
    {[won |-> 1, s1 |-> 3, s2 |-> 0],
     [won |-> 2, s1 |-> 0, s2 |-> 4],
     [won |-> 1, s1 |-> 2, s2 |-> NoScore],
     [won |-> 2, s1 |-> NoScore, s2 |-> NoScore]}

ScoredBouts ==
    {[PlainBout EXCEPT !.pair = p, !.won = o.won, !.s1 = o.s1, !.s2 = o.s2] :
        p \in {<<1, 2>>, <<2, 1>>}, o \in ScoreSheets}

ScoreInputs ==
    \E b \in BoutLists(ScoredBouts),
       op \in {"point_averages", "close_match_win_rate"},
       w \in {1, 2} :
        Database(MatchRows(b), <<>>, <<>>, <<>>,
                 StatQuery(op, w, None, None, None))

\* The result types on file: decision, major decision, technical fall and
\* pin (entered in lower case).
ResultTypeRows ==
    << [id |-> 1, code |-> "DEC"], [id |-> 2, code |-> "MD"],
       [id |-> 3, code |-> "TF"], [id |-> 4, code |-> "pin"] >>

\* Wins of wrestler 1 by decision, major decision, pin and by a result
\* type that is not on file, and losses by major decision and by pin.
FormBouts ==
    {[PlainBout EXCEPT !.won = 1, !.rt = r] : r \in {1, 2, 4, 9}}
    \cup {[PlainBout EXCEPT !.won = 2, !.rt = r] : r \in {2, 4}}

FormInputs ==
    \E n \in 0..MaxBouts :
        \E b \in [1..n -> FormBouts], w \in {1, 2} :
            Database(MatchRows(b), ResultTypeRows, <<>>, <<>>,
                     StatQuery("recent_form", w, None, None, None))

\* Dual-meet and tournament bouts of either season, and bouts at either
\* of two weight classes; wrestler 3 has no matches.
FormatBouts ==
    {[PlainBout EXCEPT !.won = o, !.meet = meet, !.season = season] :
        o \in {1, 2}, meet \in {None, 1}, season \in {1, 2}}

WeightBouts ==
    {[PlainBout EXCEPT !.won = o, !.wc = wc, !.season = season] :
        o \in {1, 2}, wc \in {1, 2}, season \in {1, 2}}

SplitInputs ==
    \/ \E b \in BoutLists(FormatBouts),
          q \in {<<1, None>>, <<1, 2>>, <<3, None>>} :
           Database(MatchRows(b), <<>>, <<>>, <<>>,
                    StatQuery("split_stats", q[1], q[2], None, None))
    \/ \E b \in BoutLists(WeightBouts),
          q \in {<<1, None, None>>, <<1, None, 1>>, <<1, 2, 1>>,
                 <<3, None, 1>>} :
           Database(MatchRows(b), <<>>, <<>>, <<>>,
                    StatQuery("split_stats", q[1], q[2], q[3], None))

\* What is on file about the duration of a match: no match_stats row, a
\* row with a null duration, or a row with a duration short of or beyond
\* overtime.
DurationRecords == {"no_row", "null", "regulation", "overtime"}

MatchStatsRows(records) ==
    LET row(i) == [match_id |-> i,
                   duration_seconds |->
                       CASE records[i] = "null" -> None
                         [] records[i] = "regulation" -> 300
                         [] records[i] = "overtime" -> 450]
        kept == SelectSeq([i \in DOMAIN records |-> i],
                          LAMBDA i : records[i] # "no_row")
    IN [k \in DOMAIN kept |-> row(kept[k])]

DurationInputs ==
    \E r \in BoutLists(DurationRecords) :
        Database(MatchRows([i \in DOMAIN r |-> PlainBout]), <<>>,
                 MatchStatsRows(r), <<>>,
                 StatQuery("match_characteristics", 1, None, None, None))

\* Seasons tables: one with a year missing before season 2, and one whose
\* ids run against the years.
SeasonTables ==
    {<< [id |-> 1, start_year |-> 2020], [id |-> 2, start_year |-> 2022],
        [id |-> 3, start_year |-> 2023] >>,
     << [id |-> 1, start_year |-> 2023], [id |-> 2, start_year |-> 2022],
        [id |-> 3, start_year |-> 2021] >>}

SeasonBouts ==
    {[PlainBout EXCEPT !.won = o, !.season = season] :
        o \in {1, 2}, season \in {1, 2, 3}}

\* The season asked for is on file, or is 4, which is not, or is None.
SeasonInputs ==
    \E b \in BoutLists(SeasonBouts), t \in SeasonTables,
       season \in {None, 1, 2, 3, 4} :
        Database(MatchRows(b), <<>>, <<>>, t,
                 StatQuery("prev_yearly_win_rate", 1, season, None, None))

StatInputs ==
    \/ ScoreInputs
    \/ FormInputs
    \/ SplitInputs
    \/ DurationInputs
    \/ SeasonInputs

StatInit ==
    /\ artifact = NoArtifact
    /\ predictor = None
    /\ heap = <<>>
    /\ features = <<>>
    /\ bindOut = NoBind
    /\ predOut = NoPredict
    /\ modelCalls = 0
    /\ ThreadsIdle
    /\ StatInputs
    /\ statOut = NoStat

statFrame == <<artifact, predictor, heap, features, bindOut, predOut,
               modelCalls, threadVars, db, result_types, match_stats,
               seasons, wrestlers, weight_classes, query>>

\* The call has returned.
Returned(op) == query.op = op /\ statOut # NoStat

\* The three point calculators on the window matches_3, and the
\* avg_point_differential_last_3 that compute_wrestler_features emits for
\* it; the floats are kept as quotients and, for the two differentials, as
\* doubles.
CallPointAverages ==
    /\ query.op = "point_averages"
    /\ statOut = NoStat
    /\ LET matches_3 == get_recent_matches(db, query.wrestler_id,
                                           query.season_id, 3)
           avg_scored_3 == calculate_avg_points_scored(matches_3,
                                                       query.wrestler_id)
           avg_allowed_3 == calculate_avg_points_allowed(matches_3,
                                                         query.wrestler_id)
           avg_diff_3 == calculate_avg_point_diff(matches_3, query.wrestler_id)
       IN statOut' =
              [matches |-> matches_3,
               avg_points_scored |-> avg_scored_3,
               avg_points_allowed |-> avg_allowed_3,
               avg_point_diff |-> avg_diff_3,
               avg_point_differential_last_3 |->
                   RatSub(avg_scored_3, avg_allowed_3),
               avg_point_diff64 |-> F64(avg_diff_3),
               avg_point_differential_last_3_64 |->
                   F64Sub(F64(avg_scored_3), F64(avg_allowed_3))]
    /\ UNCHANGED statFrame

\* compute_wrestler_features: close_rate_5 over matches_5.
CallCloseMatchWinRate ==
    /\ query.op = "close_match_win_rate"
    /\ statOut = NoStat
    /\ LET matches_5 == get_recent_matches(db, query.wrestler_id,
                                           query.season_id, 5)
       IN statOut' =
              [matches |-> matches_5,
               close_match_win_rate |->
                   calculate_close_match_win_rate(matches_5,
                                                  query.wrestler_id)]
    /\ UNCHANGED statFrame

\* compute_wrestler_features: the four windows, the win rates over them
\* and the bonus win rates over matches_5 and matches_10.
CallRecentForm ==
    /\ query.op = "recent_form"
    /\ statOut = NoStat
    /\ LET window(n) == get_recent_matches(db, query.wrestler_id,
                                           query.season_id, n)
           matches_3 == window(3)
           matches_5 == window(5)
           matches_10 == window(10)
           matches_15 == window(15)
       IN statOut' =
              [matches_3 |-> matches_3,
               matches_5 |-> matches_5,
               matches_10 |-> matches_10,
               matches_15 |-> matches_15,
               win_rate_last_3 |->
                   calculate_win_rate(matches_3, query.wrestler_id),
               win_rate_last_5 |->
                   calculate_win_rate(matches_5, query.wrestler_id),
               win_rate_last_10 |->
                   calculate_win_rate(matches_10, query.wrestler_id),
               win_rate_last_15 |->
                   calculate_win_rate(matches_15, query.wrestler_id),
               bonus_win_rate_last_5 |->
                   calculate_bonus_win_rate(result_types, matches_5,
                                            query.wrestler_id),
               bonus_win_rate_last_10 |->
                   calculate_bonus_win_rate(result_types, matches_10,
                                            query.wrestler_id)]
    /\ UNCHANGED statFrame

\* compute_wrestler_features: dual_tournament_stats and wc_stats; "if
\* weight_class_id" is false for None.
CallSplitStats ==
    /\ query.op = "split_stats"
    /\ statOut = NoStat
    /\ statOut' =
           [dual_tournament_stats |->
                get_dual_tournament_stats(db, query.wrestler_id,
                                          query.season_id),
            wc_stats |->
                IF query.weight_class_id # None
                THEN get_weight_class_stats(db, query.wrestler_id,
                                            query.weight_class_id,
                                            query.season_id)
                ELSE NoWeightClassStats]
    /\ UNCHANGED statFrame

\* compute_wrestler_features: overtime_rate_5 and avg_duration_5 over
\* matches_5.
CallMatchCharacteristics ==
    /\ query.op = "match_characteristics"
    /\ statOut = NoStat
    /\ LET matches_5 == get_recent_matches(db, query.wrestler_id,
                                           query.season_id, 5)
       IN statOut' =
              [matches |-> matches_5,
               overtime_rate_last_5 |->
                   calculate_overtime_rate(match_stats, matches_5),
               avg_duration_last_5 |->
                   calculate_avg_duration(match_stats, matches_5)]
    /\ UNCHANGED statFrame

\* compute_wrestler_features: prev_year_win_rate; "if season_id" is false
\* for None.
CallPrevYearlyWinRate ==
    /\ query.op = "prev_yearly_win_rate"
    /\ statOut = NoStat
    /\ statOut' =
           [prev_yearly_win_rate |->
                IF query.season_id # None
                THEN get_previous_season_win_rate(db, seasons,
                                                  query.wrestler_id,
                                                  query.season_id)
                ELSE <<1, 2>>]
    /\ UNCHANGED statFrame

StatNext ==
    \/ CallPointAverages
    \/ CallCloseMatchWinRate
    \/ CallRecentForm
    \/ CallSplitStats
    \/ CallMatchCharacteristics
    \/ CallPrevYearlyWinRate

SpecStats == StatInit /\ [][StatNext]_vars

(***************************************************************************)
(* Properties of the statistics calls.                                     *)
(***************************************************************************)
\* The records of a list in which both scores are present, and the
\* queried wrestler's own and opponent's score in a record.
BothScores(records) ==
    {i \in DOMAIN records : /\ records[i].wrestler1_score # NoScore
                            /\ records[i].wrestler2_score # NoScore}

OwnScore(m) == IF m.wrestler1_id = query.wrestler_id
               THEN m.wrestler1_score ELSE m.wrestler2_score

OppScore(m) == IF m.wrestler1_id = query.wrestler_id
               THEN m.wrestler2_score ELSE m.wrestler1_score

\* The sum of f[i] over the indices i in S.
SumAt(f, S) == SeqSum([i \in DOMAIN f |-> IF i \in S THEN f[i] ELSE 0])

\* C11: avg_points_scored, avg_points_allowed and avg_point_differential
\* are the means of the own score, the opponent's score and their
\* difference, taken from the competitor's slot in each record, over
\* exactly the records in which both scores are present; each is 0.0 when
\* no record has both scores.
PointAveragesOverScoredRecords ==
    Returned("point_averages") =>
        LET records == statOut.matches
            scored == BothScores(records)
            n == Cardinality(scored)
            own == [i \in DOMAIN records |-> OwnScore(records[i])]
            opp == [i \in DOMAIN records |-> OppScore(records[i])]
        IN IF scored = {}
           THEN /\ statOut.avg_points_scored = <<0, 1>>
                /\ statOut.avg_points_allowed = <<0, 1>>
                /\ statOut.avg_point_diff = <<0, 1>>
           ELSE /\ statOut.avg_points_scored = <<SumAt(own, scored), n>>
                /\ statOut.avg_points_allowed = <<SumAt(opp, scored), n>>
                /\ statOut.avg_point_diff =
                       <<SumAt(own, scored) - SumAt(opp, scored), n>>

\* The means were taken over a list that holds a record with a missing
\* score and a scored record with the competitor in the wrestler2 slot.
PointAveragesOverScoredRecordsWitness ==
    /\ Returned("point_averages")
    /\ statOut.avg_points_scored[1] > 0
    /\ statOut.avg_points_allowed[1] > 0
    /\ \E i \in DOMAIN statOut.matches : i \notin BothScores(statOut.matches)
    /\ \E i \in BothScores(statOut.matches) :
           statOut.matches[i].wrestler2_id = query.wrestler_id

\* C12 as stated: avg_point_differential == avg_points_scored -
\* avg_points_allowed for every record list and competitor, and the
\* emitted avg_point_differential_last_N equals calculate_avg_point_diff
\* over the same window; == is equality of the floats the code returns.
PointDifferentialEqualsScoredMinusAllowed ==
    Returned("point_averages") =>
        /\ statOut.avg_point_diff64 =
               F64Sub(F64(statOut.avg_points_scored),
                      F64(statOut.avg_points_allowed))
        /\ statOut.avg_point_differential_last_3_64 = statOut.avg_point_diff64

\* |x - y| < 2^-k for doubles of one sign.
Within(x, y, k) ==
    LET d == F64Sub([x EXCEPT !.neg = FALSE], [y EXCEPT !.neg = FALSE])
    IN x = y \/ (x.neg = y.neg /\ Len(d.bits) + k <= d.frac)

PowerOfTwo(n) == \E e \in 0..n : n = 2^e

\* C12, amended: the differential equals scored minus allowed, and the
\* emitted feature equals calculate_avg_point_diff, as quotients, that is
\* in exact arithmetic; the floats are equal when the number of fully
\* scored records is a power of two (or none) and otherwise agree to
\* within 2^-40.
PointDifferentialUpToRounding ==
    Returned("point_averages") =>
        LET n == Cardinality(BothScores(statOut.matches))
        IN /\ RatEq(statOut.avg_point_diff,
                    RatSub(statOut.avg_points_scored,
                           statOut.avg_points_allowed))
           /\ RatEq(statOut.avg_point_differential_last_3,
                    statOut.avg_point_diff)
           /\ (n = 0 \/ PowerOfTwo(n)) =>
                  statOut.avg_point_differential_last_3_64
                      = statOut.avg_point_diff64
           /\ Within(statOut.avg_point_differential_last_3_64,
                     statOut.avg_point_diff64, 40)

\* Three fully scored records whose emitted differential and
\* calculate_avg_point_diff are the same quotient and different floats.
PointDifferentialUpToRoundingWitness ==
    /\ Returned("point_averages")
    /\ Cardinality(BothScores(statOut.matches)) = 3
    /\ statOut.avg_point_diff[1] # 0
    /\ statOut.avg_point_differential_last_3_64 # statOut.avg_point_diff64

\* The absolute score difference of a record.
Margin(m) == Abs(m.wrestler1_score - m.wrestler2_score)

\* C14: close_match_win_rate equals the competitor's wins divided by the
\* count within the records that have both scores present and an absolute
\* score difference of at most 3 (exactly 3 is close, a record with a
\* missing score never is); it is 0.0 when that subset is empty.
CloseMatchWinRateOverCloseRecords ==
    Returned("close_match_win_rate") =>
        LET records == statOut.matches
            close == {i \in BothScores(records) : Margin(records[i]) <= 3}
            won == {i \in close : records[i].winner_id = query.wrestler_id}
        IN IF close = {}
           THEN statOut.close_match_win_rate = <<0, 1>>
           ELSE statOut.close_match_win_rate
                    = <<Cardinality(won), Cardinality(close)>>

\* A close-match win rate of 1/2 over a window that holds records decided
\* by exactly 3 points and a record that is not close or not fully scored.
CloseMatchWinRateOverCloseRecordsWitness ==
    /\ Returned("close_match_win_rate")
    /\ statOut.close_match_win_rate = <<1, 2>>
    /\ \E i \in BothScores(statOut.matches) : Margin(statOut.matches[i]) = 3
    /\ \E i \in DOMAIN statOut.matches :
           \/ i \notin BothScores(statOut.matches)
           \/ Margin(statOut.matches[i]) > 3

\* The records of a window won by the competitor, and those of them whose
\* result type is a pin or fall, a technical fall or a major decision.
Wins(records) ==
    {i \in DOMAIN records : records[i].winner_id = query.wrestler_id}

DominantWins(records) ==
    {i \in Wins(records) :
        \E t \in DOMAIN result_types :
            /\ result_types[t].id = records[i].result_type_id
            /\ result_types[t].code \in {"pin", "PIN", "FALL", "TF", "TECH",
                                         "MD", "MAJ"}}

BonusRateOf(records, rate) ==
    IF Wins(records) = {}
    THEN rate = <<0, 1>>
    ELSE rate = <<Cardinality(DominantWins(records)),
                  Cardinality(Wins(records))>>

\* C13: bonus_win_rate equals (wins whose result-type code is pin/fall,
\* technical fall or major decision) / (all wins of the competitor in the
\* list); the denominator is wins only; it is 0.0 when the competitor has
\* no wins or the list is empty; a win of an unknown or non-dominant result
\* type counts in the denominator but not in the numerator.
BonusWinRateOverWins ==
    Returned("recent_form") =>
        /\ BonusRateOf(statOut.matches_5, statOut.bonus_win_rate_last_5)
        /\ BonusRateOf(statOut.matches_10, statOut.bonus_win_rate_last_10)

\* A bonus win rate of 1/3 over a window that holds a win by pin, a win by
\* decision, a win of a result type not on file and a loss.
BonusWinRateOverWinsWitness ==
    /\ Returned("recent_form")
    /\ statOut.bonus_win_rate_last_5 = <<1, 3>>
    /\ Len(statOut.matches_5) > 3
    /\ \E i \in Wins(statOut.matches_5) :
           statOut.matches_5[i].result_type_id = 1
    /\ \E i \in Wins(statOut.matches_5) :
           \A t \in DOMAIN result_types :
               result_types[t].id # statOut.matches_5[i].result_type_id

\* The matches on file of the queried wrestler in the queried season.
InScope == {i \in DOMAIN db : /\ Involves(db[i], query.wrestler_id)
                              /\ InSeason(db[i], query.season_id)}

\* The records are the min(n, total) most recent matches in scope.
HoldsMostRecent(records, n) ==
    LET ids == {records[k].id : k \in DOMAIN records}
    IN /\ Len(records) = Min(n, Cardinality(InScope))
       /\ Cardinality(ids) = Len(records)
       /\ \A k \in DOMAIN records : \E i \in InScope : db[i] = records[k]
       /\ \A i \in InScope :
              db[i].id \notin ids =>
                  \A k \in DOMAIN records : db[i].date < records[k].date

WinRateOf(records, rate) ==
    IF records = <<>>
    THEN rate = <<0, 1>>
    ELSE rate = <<Cardinality(Wins(records)), Len(records)>>

\* Four matches on file, three of them won: one by pin, two by decision.
FourMatchesThreeWins ==
    /\ Cardinality(InScope) = 4
    /\ Cardinality({i \in InScope : db[i].winner_id = query.wrestler_id}) = 3
    /\ Cardinality({i \in InScope : /\ db[i].winner_id = query.wrestler_id
                                    /\ db[i].result_type_id = 4}) = 1
    /\ Cardinality({i \in InScope : /\ db[i].winner_id = query.wrestler_id
                                    /\ db[i].result_type_id = 1}) = 2

\* C15: each last-N window holds the min(N, total) most recent matches in
\* scope, so with fewer than N matches the statistics are computed over
\* all that exist; with 4 matches of which 3 are wins (one pin, two
\* decisions), win_rate_last_5 == 0.75 and bonus_win_rate_last_5 == 1/3.
WindowHoldsWhatExists ==
    Returned("recent_form") =>
        /\ HoldsMostRecent(statOut.matches_3, 3)
        /\ HoldsMostRecent(statOut.matches_5, 5)
        /\ HoldsMostRecent(statOut.matches_10, 10)
        /\ HoldsMostRecent(statOut.matches_15, 15)
        /\ WinRateOf(statOut.matches_3, statOut.win_rate_last_3)
        /\ WinRateOf(statOut.matches_5, statOut.win_rate_last_5)
        /\ WinRateOf(statOut.matches_10, statOut.win_rate_last_10)
        /\ WinRateOf(statOut.matches_15, statOut.win_rate_last_15)
        /\ FourMatchesThreeWins =>
               /\ statOut.win_rate_last_5 = <<3, 4>>
               /\ statOut.bonus_win_rate_last_5 = <<1, 3>>

\* The four-match history of the claim, with its loss by major decision:
\* the 5-match window holds all four and the 3-match window three.
WindowHoldsWhatExistsWitness ==
    /\ Returned("recent_form")
    /\ FourMatchesThreeWins
    /\ \E i \in InScope : /\ db[i].winner_id # query.wrestler_id
                          /\ db[i].result_type_id = 2
    /\ Len(statOut.matches_5) = 4
    /\ Len(statOut.matches_3) = 3
    /\ statOut.win_rate_last_5 = <<3, 4>>

\* One partition of the matches in scope: its rate is the 0.5 default if
\* it is empty and wins / count if it is not.
SplitRateOf(partition, rate) ==
    IF partition = {}
    THEN rate = <<1, 2>>
    ELSE rate = <<Cardinality({i \in partition :
                                  db[i].winner_id = query.wrestler_id}),
                  Cardinality(partition)>>

\* C16: each split win rate (dual_meet_win_rate, tournament_win_rate,
\* weight_class_win_rate) is the 0.5 default exactly when its partition of
\* the competitor's matches is empty (including when no weight class is
\* requested) and equals wins/count of that partition otherwise; dual
\* matches are those with a meet identifier, tournament matches those
\* without.
SplitRatesDefaultToHalf ==
    Returned("split_stats") =>
        /\ SplitRateOf({i \in InScope : db[i].meet_id # None},
                       statOut.dual_tournament_stats.dual_meet_win_rate)
        /\ SplitRateOf({i \in InScope : db[i].meet_id = None},
                       statOut.dual_tournament_stats.tournament_win_rate)
        /\ SplitRateOf({i \in InScope :
                           /\ query.weight_class_id # None
                           /\ db[i].weight_class_id = query.weight_class_id},
                       statOut.wc_stats.weight_class_win_rate)

\* A wrestler with dual-meet matches and no tournament match, and no
\* weight class requested: a dual rate of 2/3 and two defaults.
SplitRatesDefaultToHalfWitness ==
    /\ Returned("split_stats")
    /\ query.weight_class_id = None
    /\ statOut.dual_tournament_stats.dual_meet_win_rate = <<2, 3>>
    /\ statOut.dual_tournament_stats.tournament_matches = 0
    /\ statOut.dual_tournament_stats.tournament_win_rate = <<1, 2>>
    /\ statOut.wc_stats.weight_class_win_rate = <<1, 2>>

\* The match_stats rows of the window's matches that record a duration.
Recorded ==
    {k \in DOMAIN match_stats :
        /\ match_stats[k].duration_seconds # None
        /\ \E i \in DOMAIN statOut.matches :
               statOut.matches[i].id = match_stats[k].match_id}

\* C17: overtime_rate and avg_duration are computed only over the window's
\* matches that have a recorded duration: a match with no duration record
\* or with a null duration contributes to neither the numerator nor the
\* denominator of either statistic, and both are 0.0 when no match in the
\* window has a recorded duration.
DurationStatsOverRecordedOnly ==
    Returned("match_characteristics") =>
        LET n == Cardinality(Recorded)
            seconds == [k \in DOMAIN match_stats |->
                           match_stats[k].duration_seconds]
            overtime == {k \in Recorded : seconds[k] > OvertimeSeconds}
        IN IF Recorded = {}
           THEN /\ RatEq(statOut.overtime_rate_last_5, <<0, 1>>)
                /\ RatEq(statOut.avg_duration_last_5, <<0, 1>>)
           ELSE /\ RatEq(statOut.overtime_rate_last_5,
                         <<Cardinality(overtime), n>>)
                /\ RatEq(statOut.avg_duration_last_5,
                         <<SumAt(seconds, Recorded), n>>)

\* The seasons on file that started the year before the season asked for.
PriorSeasons ==
    {p \in DOMAIN seasons :
        \E c \in DOMAIN seasons :
            /\ seasons[c].id = query.season_id
            /\ seasons[p].start_year = seasons[c].start_year - 1}

\* The competitor's matches of the season with the given id.
MatchesOfSeason(id) ==
    {i \in DOMAIN db : /\ Involves(db[i], query.wrestler_id)
                       /\ db[i].season_id = id}

\* C18: prev_yearly_win_rate is the competitor's win rate in the season
\* whose start year is exactly one less than the current season's start
\* year; it is the 0.5 default when no such prior season exists, when the
\* current season is unknown, or when no season is requested.
PrevYearlyWinRateOfPriorSeason ==
    Returned("prev_yearly_win_rate") =>
        IF query.season_id = None \/ PriorSeasons = {}
        THEN statOut.prev_yearly_win_rate = <<1, 2>>
        ELSE \A p \in PriorSeasons :
                 LET mine == MatchesOfSeason(seasons[p].id)
                     won == {i \in mine :
                                db[i].winner_id = query.wrestler_id}
                 IN IF mine = {}
                    THEN statOut.prev_yearly_win_rate = <<0, 1>>
                    ELSE statOut.prev_yearly_win_rate
                             = <<Cardinality(won), Cardinality(mine)>>

\* The rate of a prior season whose id is not one less than the current
\* one's, for a competitor who also has matches in the current season and
\* in a season two years back.
PrevYearlyWinRateOfPriorSeasonWitness ==
    /\ Returned("prev_yearly_win_rate")
    /\ statOut.prev_yearly_win_rate = <<1, 1>>
    /\ \E p \in PriorSeasons :
           /\ seasons[p].id # query.season_id - 1
           /\ MatchesOfSeason(seasons[p].id) # {}
    /\ MatchesOfSeason(query.season_id) # {}
    /\ \E e \in DOMAIN seasons :
           /\ e \notin PriorSeasons
           /\ seasons[e].id # query.season_id
           /\ MatchesOfSeason(seasons[e].id) # {}

(***************************************************************************)
(* The feature dict of one wrestler and the dict compiled for a pair of    *)
(* wrestlers: a database and the arguments of one call, then the call.     *)
(* datetime.now() is Today for the first compute_wrestler_features of a    *)
(* call and may be the next day for the second.                            *)
(***************************************************************************)
PairBouts ==
    {[PlainBout EXCEPT !.pair = p, !.won = o.won, !.s1 = o.s1, !.s2 = o.s2] :
        p \in Pairings,
        o \in {[won |-> 1, s1 |-> 3, s2 |-> 0],
               [won |-> 2, s1 |-> 0, s2 |-> 4]}}

\* Wrestlers 1 and 3 have no match against each other.
PairQueries ==
    {StatQuery("wrestler_features", w, None, None, None) : w \in Wrestlers}
    \cup {StatQuery("features_for_prediction", q[1], None, None, q[2]) :
             q \in {<<1, 2>>, <<2, 1>>, <<3, 2>>, <<1, 3>>}}

PairInit ==
    /\ artifact = NoArtifact
    /\ predictor = None
    /\ heap = <<>>
    /\ features = <<>>
    /\ bindOut = NoBind
    /\ predOut = NoPredict
    /\ modelCalls = 0
    /\ ThreadsIdle
    /\ \E b \in BoutLists(PairBouts), q \in PairQueries :
           Database(MatchRows(b), ResultTypeRows, <<>>, <<>>, q)
    /\ statOut = NoStat

\* The day after the last day a match on file can have.
Today == MaxMatches + 1

CallComputeWrestlerFeatures ==
    /\ query.op = "wrestler_features"
    /\ statOut = NoStat
    /\ statOut' =
           [features |->
                compute_wrestler_features(db, result_types, match_stats,
                                          seasons, query.wrestler_id,
                                          query.season_id,
                                          query.weight_class_id, Today)]
    /\ UNCHANGED statFrame

CallComputeFeaturesForPrediction ==
    /\ query.op = "features_for_prediction"
    /\ statOut = NoStat
    /\ \E later \in {Today, Today + 1} :
          LET w1_features ==
                  compute_wrestler_features(db, result_types, match_stats,
                                            seasons, query.wrestler_id,
                                            query.season_id,
                                            query.weight_class_id, Today)
              w2_features ==
                  compute_wrestler_features(db, result_types, match_stats,
                                            seasons, query.opponent_id,
                                            query.season_id,
                                            query.weight_class_id, later)
              h2h == get_h2h_stats(db, query.wrestler_id, query.opponent_id)
          IN statOut' = [w1_features |-> w1_features,
                         w2_features |-> w2_features,
                         h2h |-> h2h,
                         features |-> Compose(w1_features, w2_features, h2h)]
    /\ UNCHANGED statFrame

PairNext ==
    \/ CallComputeWrestlerFeatures
    \/ CallComputeFeaturesForPrediction

SpecPair == PairInit /\ [][PairNext]_vars

\* The matches on file between the two competitors of the call.
Between ==
    {i \in DOMAIN db :
        {db[i].wrestler1_id, db[i].wrestler2_id}
            = {query.wrestler_id, query.opponent_id}}

\* C19: the head-to-head win rate for side A is the 0.5 default exactly
\* when the two competitors have no matches against each other, and equals
\* wins_a / total otherwise, where total counts every match between the
\* unordered pair, whichever slot each competitor occupied.
HeadToHeadWinRate ==
    Returned("features_for_prediction") =>
        LET wins_a == {i \in Between : db[i].winner_id = query.wrestler_id}
        IN /\ Lookup(statOut.features, "h2h_matches") = Cardinality(Between)
           /\ IF Between = {}
              THEN Lookup(statOut.features, "h2h_win_rate") = <<1, 2>>
              ELSE Lookup(statOut.features, "h2h_win_rate")
                       = <<Cardinality(wins_a), Cardinality(Between)>>

\* A head-to-head rate of 2/3 over matches in which side A stood in
\* either slot, with a match against a third wrestler on file.
HeadToHeadWinRateWitness ==
    /\ Returned("features_for_prediction")
    /\ Lookup(statOut.features, "h2h_win_rate") = <<2, 3>>
    /\ \E i \in Between : db[i].wrestler1_id = query.wrestler_id
    /\ \E i \in Between : db[i].wrestler2_id = query.wrestler_id

\* Every entry of d is in the compiled dict under the prefixed key.
CarriedOver(prefix, d) ==
    \A i \in DOMAIN d :
        /\ HasKey(statOut.features, prefix \o d[i][1])
        /\ Lookup(statOut.features, prefix \o d[i][1]) = d[i][2]

\* How often a key occurs in the compiled dict.
Occurrences(key) ==
    Cardinality({i \in DOMAIN statOut.features :
                    statOut.features[i][1] = key})

\* C20: the composer's output contains every entry of side A's and of side
\* B's feature set under their side prefixes with values unchanged, the
\* head-to-head match count and win rate, and the five differentials, each
\* side A's value minus side B's value of the corresponding feature.
ComposerOutput ==
    Returned("features_for_prediction") =>
        LET a == statOut.w1_features
            b == statOut.w2_features
            out == statOut.features
        IN /\ CarriedOver("w1_", a)
           /\ CarriedOver("w2_", b)
           /\ \A i \in DOMAIN out : Occurrences(out[i][1]) = 1
           /\ Lookup(out, "h2h_matches") = statOut.h2h[1]
           /\ HasKey(out, "h2h_win_rate")
           /\ RatEq(Lookup(out, "win_rate_diff_5"),
                    RatSub(Lookup(a, "win_rate_last_5"),
                           Lookup(b, "win_rate_last_5")))
           /\ RatEq(Lookup(out, "win_rate_diff_10"),
                    RatSub(Lookup(a, "win_rate_last_10"),
                           Lookup(b, "win_rate_last_10")))
           /\ RatEq(Lookup(out, "point_diff_last_5"),
                    RatSub(Lookup(a, "avg_point_differential_last_5"),
                           Lookup(b, "avg_point_differential_last_5")))
           /\ Lookup(out, "experience_diff")
                  = Lookup(a, "experience") - Lookup(b, "experience")
           /\ Lookup(out, "rest_diff")
                  = Lookup(a, "days_since_last_match")
                        - Lookup(b, "days_since_last_match")

\* A composition of two feature sets that differ in all five compared
\* features.
ComposerOutputWitness ==
    /\ Returned("features_for_prediction")
    /\ Len(statOut.w1_features) = NumNames
    /\ Lookup(statOut.features, "win_rate_diff_5")[1] # 0
    /\ Lookup(statOut.features, "win_rate_diff_10")[1] # 0
    /\ Lookup(statOut.features, "point_diff_last_5")[1] # 0
    /\ Lookup(statOut.features, "experience_diff") # 0
    /\ Lookup(statOut.features, "rest_diff") # 0

(***************************************************************************)
(* The feature aggregator over seasons and weight classes, and the binder  *)
(* applied to what the aggregator and the pairwise composer return.        *)
(***************************************************************************)
\* Wrestlers 1 and 2 meet in a dual meet at weight class 1 with scores on
\* file, or in a tournament at weight class 2 without; wrestler 3 has no
\* match on file.
AggBouts ==
    {[PlainBout EXCEPT !.pair = o.pair, !.won = o.won, !.meet = o.meet,
                       !.wc = o.wc, !.s1 = o.s1, !.s2 = o.s2,
                       !.season = season] :
        o \in {[pair |-> <<1, 2>>, won |-> 1, meet |-> 1, wc |-> 1,
                s1 |-> 3, s2 |-> 0],
               [pair |-> <<1, 2>>, won |-> 2, meet |-> None, wc |-> 2,
                s1 |-> 1, s2 |-> 2],
               [pair |-> <<2, 1>>, won |-> 1, meet |-> None, wc |-> 2,
                s1 |-> NoScore, s2 |-> NoScore]},
        season \in {1, 2}}

\* Season 2 started the year after season 1; no season started in 2021.
AggSeasons ==
    << [id |-> 1, start_year |-> 2022], [id |-> 2, start_year |-> 2023] >>

\* The first match has a match_stats row without a duration, the others
\* went to overtime.
AggMatchStats(bouts) ==
    MatchStatsRows([i \in DOMAIN bouts |->
                       IF i = 1 THEN "null" ELSE "overtime"])

\* The season asked for is on file, or is 3, which is not, or is None.
AggQueries ==
    {StatQuery("wrestler_features", w, season, wc, None) :
        w \in {1, 3}, season \in {None, 1, 2, 3}, wc \in {None, 2}}
    \cup {StatQuery("features_for_prediction", q[1], season, None, q[2]) :
             q \in {<<1, 2>>, <<3, 1>>}, season \in {None, 2}}

AggInit ==
    /\ artifact \in {a \in BinaryArtifacts : a.hasProba}
    /\ heap = <<NewPredictor(artifact)>>
    /\ predictor = 1
    /\ features = <<>>
    /\ bindOut = NoBind
    /\ predOut = NoPredict
    /\ modelCalls = 0
    /\ ThreadsIdle
    /\ \E b \in BoutLists(AggBouts), q \in AggQueries :
           Database(MatchRows(b), ResultTypeRows, AggMatchStats(b),
                    AggSeasons, q)
    /\ statOut = NoStat

\* predictor.prepare_features on the dict the call has returned.
CallBindReturned ==
    /\ statOut # NoStat
    /\ bindOut.status = "none"
    /\ features' = statOut.features
    /\ bindOut' = prepare_features(heap[predictor], statOut.features)
    /\ UNCHANGED <<artifact, predictor, heap, predOut, modelCalls,
                   threadVars, statVars>>

AggNext ==
    \/ CallComputeWrestlerFeatures
    \/ CallComputeFeaturesForPrediction
    \/ CallBindReturned

SpecAgg == AggInit /\ [][AggNext]_vars

\* The contract names whose entries are counts, and the rates that
\* default to 0.5.
CountNames ==
    {"career_wins", "career_losses", "career_matches", "season_wins",
     "season_matches", "experience", "streak", "dual_meet_wins",
     "dual_meet_matches", "tournament_wins", "tournament_matches",
     "weight_class_matches", "weight_class_wins", "days_since_last_match"}

HalfDefaultNames ==
    {"prev_yearly_win_rate", "dual_meet_win_rate", "tournament_win_rate",
     "weight_class_win_rate"}

\* An entry is a number: an integer, or a quotient with a denominator.
IsNumber(entry) ==
    IF entry[1] \in CountNames \cup {"year"}
    THEN entry[2] \in Int
    ELSE entry[2][1] \in Int /\ entry[2][2] > 0

\* The matches on file of the wrestler the features are computed for.
OnFile == {i \in DOMAIN db : Involves(db[i], query.wrestler_id)}

\* C21: for every competitor, one with no matches at all included, and
\* every combination of present and absent season and weight class,
\* compute_wrestler_features returns a mapping in which every entry is a
\* number; for a competitor with no data every rate is at its documented
\* default (0.5 for the split and previous-season rates, else 0.0) and the
\* counts, the streak and days_since_last_match are 0.
EveryEntryAtItsDefault ==
    Returned("wrestler_features") =>
        /\ \A i \in DOMAIN statOut.features : IsNumber(statOut.features[i])
        /\ OnFile = {} =>
              \A i \in DOMAIN statOut.features :
                 LET name == statOut.features[i][1]
                     value == statOut.features[i][2]
                 IN CASE name \in CountNames -> value = 0
                      [] name \in HalfDefaultNames -> value = <<1, 2>>
                      [] name = "year" -> TRUE
                      [] OTHER -> RatEq(value, <<0, 1>>)

\* How many of the matches in S the wrestler of the call won.
WonOf(S) == Cardinality({i \in S : db[i].winner_id = query.wrestler_id})

\* C29: when a season is requested the career slice is filtered to that
\* season too, so career_matches = season_matches, career_wins =
\* season_wins and experience = season_matches; only when no season is
\* requested do the career counts cover all of the competitor's matches,
\* and season_matches is then 0.
CareerSliceFollowsSeason ==
    Returned("wrestler_features") =>
        LET f == statOut.features
            inSeason == {i \in OnFile : db[i].season_id = query.season_id}
        IN IF query.season_id # None
           THEN /\ Lookup(f, "career_matches") = Cardinality(inSeason)
                /\ Lookup(f, "season_matches") = Cardinality(inSeason)
                /\ Lookup(f, "career_wins") = WonOf(inSeason)
                /\ Lookup(f, "season_wins") = WonOf(inSeason)
                /\ Lookup(f, "experience") = Lookup(f, "season_matches")
           ELSE /\ Lookup(f, "career_matches") = Cardinality(OnFile)
                /\ Lookup(f, "career_wins") = WonOf(OnFile)
                /\ Lookup(f, "experience") = Cardinality(OnFile)
                /\ Lookup(f, "season_matches") = 0

\* Features of season 2 for a wrestler with a win in season 2 and matches
\* in season 1 that the career counts leave out.
CareerSliceFollowsSeasonWitness ==
    /\ Returned("wrestler_features")
    /\ query.season_id = 2
    /\ Lookup(statOut.features, "career_matches") = 2
    /\ Lookup(statOut.features, "career_wins") = 1
    /\ Cardinality(OnFile) = 3

\* C30: when the previous season exists but the competitor has no matches
\* in it, prev_yearly_win_rate is 0.0, not the 0.5 neutral default; the
\* default is returned only when no season is requested or the record of
\* the current or of the previous season is absent; with matches in the
\* previous season the rate is the wins over the matches of that season.
PrevYearlyZeroWithoutMatches ==
    Returned("wrestler_features") =>
        LET rate == Lookup(statOut.features, "prev_yearly_win_rate")
            current == {k \in DOMAIN seasons :
                           seasons[k].id = query.season_id}
            previous ==
                {k \in DOMAIN seasons :
                    \E c \in current :
                       seasons[k].start_year = seasons[c].start_year - 1}
        IN IF query.season_id = None \/ previous = {}
           THEN rate = <<1, 2>>
           ELSE LET then == {i \in OnFile :
                                \E k \in previous :
                                   db[i].season_id = seasons[k].id}
                IN IF then = {}
                   THEN rate = <<0, 1>>
                   ELSE rate = <<WonOf(then), Cardinality(then)>>

\* A wrestler with matches in season 2 only asks for season 2, whose
\* previous season is on file.
PrevYearlyZeroWithoutMatchesWitness ==
    /\ Returned("wrestler_features")
    /\ query.season_id = 2
    /\ OnFile # {}
    /\ \A i \in OnFile : db[i].season_id = 2
    /\ Lookup(statOut.features, "prev_yearly_win_rate") = <<0, 1>>

\* The keys of a dict, in order.
Keys(d) == [i \in DOMAIN d |-> d[i][1]]

\* C27: the key set of the mapping compute_wrestler_features returns is
\* the predictor's feature-name contract, the same 42 names with none
\* missing and none extra, so binding a FeatureSet the aggregator produced
\* never raises a missing-feature error, whatever the competitor, the
\* season and the weight class.
AggregatorKeysAreTheContract ==
    Returned("wrestler_features") =>
        LET self == heap[predictor] IN
        /\ Len(statOut.features) = Len(self.feature_names)
        /\ {statOut.features[i][1] : i \in DOMAIN statOut.features}
               = {self.feature_names[i] : i \in DOMAIN self.feature_names}
        /\ bindOut.status # "none" =>
              /\ bindOut.status = "ok"
              /\ bindOut.X = <<Values(statOut.features)>>

\* The features of a wrestler with matches, for a season and a weight
\* class, have been bound.
AggregatorKeysAreTheContractWitness ==
    /\ Returned("wrestler_features")
    /\ query.season_id # None
    /\ query.weight_class_id # None
    /\ Lookup(statOut.features, "weight_class_matches") > 0
    /\ bindOut.status = "ok"
    /\ Len(bindOut.X[1]) = NumNames

\* C26: following the stated data flow, the feature set the pairwise
\* composer produces can be bound: for every pair of competitors,
\* prepare_features on the output of compute_features_for_prediction
\* succeeds without a missing-feature error.
ComposerOutputBinds ==
    (Returned("features_for_prediction") /\ bindOut.status # "none") =>
        bindOut.status = "ok"

(***************************************************************************)
(* calculate_streak on histories longer than the block it reads.  Wrestlers*)
(* 1 and 2 meet once a day, taking the wrestler1 slot in turn; the oldest  *)
(* run matches go one way, the next two the other way and the rest the     *)
(* first way again; the matches up to a split day belong to season 1 and   *)
(* the later ones to season 2.                                             *)
(***************************************************************************)
LongTable(n, run, first, split, layout) ==
    LET day(i) == IF layout = "oldest_first" THEN i ELSE n + 1 - i
        winner(d) == IF d <= run \/ d > run + 2 THEN first ELSE 3 - first
    IN [i \in 1..n |->
           [date |-> day(i),
            wrestler1_id |-> 1 + (day(i) % 2),
            wrestler2_id |-> 2 - (day(i) % 2),
            winner_id |-> winner(day(i)),
            season_id |-> IF day(i) <= split THEN 1 ELSE 2]]

StreakInit ==
    /\ artifact = NoArtifact
    /\ predictor = None
    /\ heap = <<>>
    /\ features = <<>>
    /\ bindOut = NoBind
    /\ predOut = NoPredict
    /\ modelCalls = 0
    /\ ThreadsIdle
    /\ \E n \in 0..MaxHistory :
          \E run \in 0..n, first \in {1, 2}, split \in {0, 2, n},
             layout \in RowLayouts :
              db = LongTable(n, run, first, split, layout)
    /\ NoSideTables
    /\ query = NoQuery
    /\ statOut = NoStat

StreakNext ==
    \E wrestler_id \in {1, 2}, season_id \in Seasons \cup {None} :
        CallCalculateStreak(wrestler_id, season_id)

SpecStreak == StreakInit /\ [][StreakNext]_vars

\* The matches of H that the limit of 20 keeps: those with fewer than 20
\* later matches in H.
Block(H) ==
    {i \in H : Cardinality({j \in H : db[j].date > db[i].date}) < 20}

\* The oldest match of a non-empty set of matches.
Oldest(S) == CHOOSE i \in S : \A j \in S : db[i].date <= db[j].date

\* The matches of block B from its oldest up to the first whose outcome
\* differs from the oldest's.
OldestRun(B) ==
    LET first == Won(Oldest(B))
        flips == {j \in B : Won(j) # first}
    IN {i \in B : \A j \in flips : db[i].date < db[j].date}

Omitted == -1

\* "if request.season_id:" is false for a field left out and for 0.
Truthy(x) == x # Omitted /\ x # 0

\* The optional argument the handler passes on: None and 0 are both false
\* in every test compute_wrestler_features makes of it.
Passed(x) == IF Truthy(x) THEN x ELSE None

\* crud.get_wrestler, crud.get_season, crud.get_weight_class: the first
\* row with the id, None if there is none.
get_by_id(rows, id) == First([k \in DOMAIN rows |-> rows[k].id = id])

\* The detail of the HTTPException(404) the validation raises, "" if none.
NotFound(request) ==
    CASE get_by_id(wrestlers, request.wrestler1_id) = None -> "Wrestler"
      [] get_by_id(wrestlers, request.wrestler2_id) = None -> "Wrestler"
      [] /\ Truthy(request.season_id)
         /\ get_by_id(seasons, request.season_id) = None -> "Season"
      [] /\ Truthy(request.weight_class_id)
         /\ get_by_id(weight_classes, request.weight_class_id) = None
            -> "Weight class"
      [] OTHER -> ""

\* A winner picked against the probabilities.
PredictedWinnerInverted(request, pair) ==
    IF pair[1] > pair[2] THEN request.wrestler2_id ELSE request.wrestler1_id

\* "request.wrestler1_id if wrestler1_win_prob > wrestler2_win_prob else
\*  request.wrestler2_id"
PredictedWinner(request, pair) ==
    IF pair[1] > pair[2] THEN request.wrestler1_id ELSE request.wrestler2_id

NoWinner == [predicted_winner_id |-> None, confidence |-> 0]

\* The PredictionResponse, or the HTTPException of the handlers at the end
\* of the try block, for the outcome res of predictor.predict.
PredictionResponse(request, res) ==
    LET base == Response(res) IN
    [code |-> base.code,
     detail |-> CASE base.code = 200 -> ""
                  [] base.code = 400 -> "Error computing features"
                  [] OTHER -> "Error making prediction",
     pair |-> base.pair,
     predicted_winner_id |->
         IF base.code = 200 THEN PredictedWinner(request, base.pair)
                            ELSE NoWinner.predicted_winner_id,
     confidence |->
         IF base.code = 200 THEN Max(base.pair[1], base.pair[2])
                            ELSE NoWinner.confidence]

\* The response to a request whose validation raised.
Rejected(detail) ==
    [code |-> 404, detail |-> detail \o " not found", pair |-> <<>>,
     predicted_winner_id |-> NoWinner.predicted_winner_id,
     confidence |-> NoWinner.confidence]

\* What an exchange leaves behind when no features were computed; now is
\* the last reading of the clock.
NotComputed == [computed |-> FALSE, now |-> 0, w2_features |-> <<>>]

\* The FeatureSets the rest of the handler is run on: the one the
\* aggregator returns and, for the handler's missing-feature path, the
\* same dict without its last entry.
FeatureSetsFrom(d) == {d, SubSeq(d, 1, Len(d) - 1)}

\* A model with predict_proba whose answer depends on the row.
Tree(out, alt, at, cut) ==
    [exists |-> TRUE, hasProba |-> TRUE, out |-> out, alt |-> alt,
     at |-> at, cut |-> cut]

\* No model file; a model of three classes that gives the first two the
\* same probability unless days_since_last_match (position 40) is 2 or
\* more; a model without predict_proba.
RequestArtifacts ==
    {NoArtifact,
     Tree(<<1, 1, Scale - 2>>, <<1, Scale - 1>>, 40, 2),
     Constant(FALSE, <<1>>)}

\* No match is on file, or wrestler 1 has beaten wrestler 2 on each day up
\* to yesterday; wrestler 3 has no match; ids 7 and 9 are on no table.
RequestBouts(n) == [i \in 1..n |-> [PlainBout EXCEPT !.season = 2]]

WrestlerRows == << [id |-> 1, name |-> "a"], [id |-> 2, name |-> "b"],
                   [id |-> 3, name |-> "c"] >>

WeightClassRows == << [id |-> 1], [id |-> 2] >>

PredictionRequest(wrestler1_id, wrestler2_id, season_id, weight_class_id) ==
    [op |-> "predict_match", wrestler1_id |-> wrestler1_id,
     wrestler2_id |-> wrestler2_id, season_id |-> season_id,
     weight_class_id |-> weight_class_id]

Requests ==
         {PredictionRequest(1, 2, Omitted, Omitted),
          PredictionRequest(1, 3, Omitted, Omitted),
          PredictionRequest(1, 2, 2, 1),
          PredictionRequest(1, 2, 0, Omitted),
          PredictionRequest(9, 2, Omitted, Omitted),
          PredictionRequest(1, 9, Omitted, Omitted),
          PredictionRequest(1, 2, 7, Omitted),
          PredictionRequest(1, 2, Omitted, 7)}

\* No request has been served.
NoExchange == [request |-> NoQuery, now |-> 0, response |-> NoResp]

RequestInit ==
    /\ artifact \in RequestArtifacts
    /\ predictor = None
    /\ heap = <<>>
    /\ features = <<>>
    /\ bindOut = NoBind
    /\ predOut = NoExchange
    /\ modelCalls = 0
    /\ ThreadsIdle
    /\ \E n \in {0, MaxMatches} :
          /\ db = MatchRows(RequestBouts(n))
          /\ match_stats = AggMatchStats(RequestBouts(n))
    /\ result_types = ResultTypeRows
    /\ seasons = AggSeasons
    /\ wrestlers = WrestlerRows
    /\ weight_classes = WeightClassRows
    /\ query = NoQuery
    /\ statOut = NotComputed

requestFrame == <<artifact, pc, tmp, handle, db, result_types, match_stats,
                  seasons, wrestlers, weight_classes>>

\* The exchange that was the last one before this request.
LastExchange == [request |-> query, now |-> statOut.now, response |-> resp[1]]

\* A request that fails validation: HTTP 404 before anything is computed.
RejectRequest(request) ==
    /\ NotFound(request) # ""
    /\ resp' = [resp EXCEPT ![1] = Rejected(NotFound(request))]
    /\ features' = <<>>
    /\ bindOut' = NoBind
    /\ statOut' = [NotComputed EXCEPT !.now = statOut.now]
    /\ UNCHANGED <<predictor, heap, modelCalls, loadAttempts, loadFailures>>

\* A valid request whose get_predictor() raises FileNotFoundError: the
\* features have been computed, "except Exception" answers HTTP 500.
FailToLoad(request, w1_features, w2_features, now) ==
    /\ predictor = None
    /\ ~artifact.exists
    /\ loadAttempts' = loadAttempts + 1
    /\ loadFailures' = loadFailures + 1
    /\ resp' = [resp EXCEPT ![1] =
                   PredictionResponse(request,
                                      [status |-> "FileNotFoundError"])]
    /\ features' = w1_features
    /\ bindOut' = NoBind
    /\ statOut' = [computed |-> TRUE, now |-> now,
                   w2_features |-> w2_features]
    /\ UNCHANGED <<predictor, heap, modelCalls>>

\* A handler that predicts from the opponent's features.
BoundOpponent(w1_features, w2_features) == w2_features

\* "predictor.predict(w1_features)": of the two feature sets the handler
\* has computed, the one it hands to the predictor.
Bound(w1_features, w2_features) == w1_features

\* A valid request that gets a predictor, loading it if there is none, and
\* calls predict on wrestler 1's features.
PredictAndRespond(request, w1_features, w2_features, now) ==
    /\ predictor # None \/ artifact.exists
    /\ IF predictor = None
       THEN /\ heap' = Append(heap, NewPredictor(artifact))
            /\ predictor' = Len(heap) + 1
            /\ loadAttempts' = loadAttempts + 1
       ELSE UNCHANGED <<heap, predictor, loadAttempts>>
    /\ LET self == heap'[predictor']
           bound == Bound(w1_features, w2_features)
       IN /\ resp' = [resp EXCEPT ![1] =
                         PredictionResponse(request, predict(self, bound))]
          /\ bindOut' = prepare_features(self, bound)
          /\ modelCalls' = IF InvokesModel(self, bound)
                           THEN modelCalls + 1 ELSE modelCalls
    /\ features' = w1_features
    /\ statOut' = [computed |-> TRUE, now |-> now,
                   w2_features |-> w2_features]
    /\ UNCHANGED loadFailures

\* predict_match.  The clock is read when the features are computed and
\* does not run backwards from one request to the next.
PredictMatch(request) ==
    /\ served[1] < MaxExchanges
    /\ served' = [served EXCEPT ![1] = @ + 1]
    /\ query' = request
    /\ predOut' = LastExchange
    /\ \/ RejectRequest(request)
       \/ /\ NotFound(request) = ""
          /\ \E now \in {Today, Today + 1} :
                /\ now >= statOut.now
                /\ LET computed ==
                           compute_wrestler_features(
                               db, result_types, match_stats, seasons,
                               request.wrestler1_id,
                               Passed(request.season_id),
                               Passed(request.weight_class_id), now)
                       w2_features ==
                           compute_wrestler_features(
                               db, result_types, match_stats, seasons,
                               request.wrestler2_id,
                               Passed(request.season_id),
                               Passed(request.weight_class_id), now)
                   IN \E w1_features \in FeatureSetsFrom(computed) :
                         \/ FailToLoad(request, w1_features, w2_features,
                                       now)
                         \/ PredictAndRespond(request, w1_features,
                                              w2_features, now)
    /\ UNCHANGED requestFrame

RequestNext == \E request \in Requests : PredictMatch(request)

SpecRequest == RequestInit /\ [][RequestNext]_vars

\* A request has been answered.
Answered == query.op = "predict_match"

\* C22: in every successful prediction response predicted_winner_id is one
\* of the two requested competitor ids and is a side whose probability
\* equals the maximum of the two returned probabilities, and confidence
\* equals that maximum.
WinnerIsArgmax ==
    (Answered /\ resp[1].code = 200) =>
        LET r == resp[1]
            top == IF r.pair[1] >= r.pair[2] THEN r.pair[1] ELSE r.pair[2]
        IN /\ \/ /\ r.predicted_winner_id = query.wrestler1_id
                 /\ r.pair[1] = top
              \/ /\ r.predicted_winner_id = query.wrestler2_id
                 /\ r.pair[2] = top
           /\ r.confidence = top

\* A response with equal probabilities, which names wrestler 2.
WinnerIsArgmaxWitness ==
    /\ Answered
    /\ resp[1].code = 200
    /\ resp[1].pair[1] = resp[1].pair[2]
    /\ resp[1].predicted_winner_id = query.wrestler2_id
    /\ query.wrestler2_id # query.wrestler1_id

\* C23: a contract mismatch, a name the binder requires that is missing
\* from the computed FeatureSet, is fatal to the request and reaches the
\* caller as HTTP 400 "Error computing features", never as a successful
\* response and never as a generic server error.
MismatchIsClientError ==
    (Answered /\ bindOut.status = "ValueError") =>
        /\ ~Complete(features)
        /\ resp[1].code = 400
        /\ resp[1].detail = "Error computing features"
        /\ resp[1].pair = <<>>
        /\ resp[1].predicted_winner_id = None

\* The binder has met a FeatureSet without "year" in a request that a
\* model was loaded for.
MismatchIsClientErrorWitness ==
    /\ Answered
    /\ bindOut.status = "ValueError"
    /\ bindOut.message = "year"
    /\ predictor # None
    /\ resp[1].code = 400

\* An id of the request that is on no table.
Unknown(request) ==
    \/ \A k \in DOMAIN wrestlers : wrestlers[k].id # request.wrestler1_id
    \/ \A k \in DOMAIN wrestlers : wrestlers[k].id # request.wrestler2_id
    \/ /\ request.season_id # Omitted
       /\ \A k \in DOMAIN seasons : seasons[k].id # request.season_id
    \/ /\ request.weight_class_id # Omitted
       /\ \A k \in DOMAIN weight_classes :
             weight_classes[k].id # request.weight_class_id

\* C24: unknown identifiers are rejected before reaching the core: if
\* wrestler1 or wrestler2 is unknown, or a supplied season or weight-class
\* identifier is unknown, the request ends with a not-found error and
\* neither the feature computation nor the predictor, model loading
\* included, is invoked for that request.
UnknownIdsAreRejected ==
    /\ []((Answered /\ Unknown(query)) =>
             /\ resp[1].code = 404
             /\ ~statOut.computed)
    /\ [][(served' # served /\ Unknown(query')) =>
             /\ loadAttempts' = loadAttempts
             /\ modelCalls' = modelCalls
             /\ heap' = heap
             /\ predictor' = predictor]_vars

\* The same two fields of two requests.
SameButOpponent(a, b) ==
    /\ a.wrestler1_id = b.wrestler1_id
    /\ a.season_id = b.season_id
    /\ a.weight_class_id = b.weight_class_id

\* C28: the probabilities predict_match returns depend only on wrestler
\* 1's FeatureSet: they are the model's answer to the row of its values,
\* and for a fixed model, record store, wrestler1, season and weight class
\* two requests that differ only in wrestler2_id, served on the same day,
\* return identical probabilities.
ProbabilitiesIgnoreOpponent ==
    (Answered /\ resp[1].code = 200) =>
        LET self == heap[predictor] IN
        /\ resp[1].pair
               = ModelOutcome(self, Answer(self.model,
                                           <<Values(features)>>)).pair
        /\ (/\ predOut.response.code = 200
            /\ SameButOpponent(predOut.request, query)
            /\ predOut.now = statOut.now)
              => resp[1].pair = predOut.response.pair

\* Wrestler 1, with matches on file, was paired with wrestler 2 and then
\* with wrestler 3, who has none; both requests were answered.
ProbabilitiesIgnoreOpponentWitness ==
    /\ Answered
    /\ resp[1].code = 200
    /\ predOut.response.code = 200
    /\ SameButOpponent(predOut.request, query)
    /\ predOut.now = statOut.now
    /\ predOut.request.wrestler2_id = 2
    /\ query.wrestler2_id = 3
    /\ db # <<>>
    /\ resp[1].pair[1] > resp[1].pair[2]

====
